---- MODULE Spec2Model ----
(***************************************************************************)
(* Stage graph scheduler of the agentic workflow runtime.                  *)
(*                                                                         *)
(* One run of the compiled StageGraph (graph/stage_graph.py) over the      *)
(* stages loaded by StageRegistry (runtime/stage_registry.py), started by  *)
(* RuntimeManager.run_user_message (runtime/runtime_manager.py).           *)
(*                                                                         *)
(* The session state is held in channels; a node reads the state, returns  *)
(* a delta, the delta is merged channel by channel, and the outgoing edge  *)
(* of the node picks the next node.                                        *)
(***************************************************************************)
EXTENDS Integers, Sequences, FiniteSets, TLC

(***************************************************************************)
(* Bounds of the model.                                                    *)
(***************************************************************************)
MaxStages == 2      \* entries of stage.json
MaxAllowed == 2     \* length of a stage's allowed_agents
MaxHistory == 5     \* agent executions explored in one run

(***************************************************************************)
(* Names.                                                                  *)
(***************************************************************************)
Roles == {"opt", "crit", "synth"}
StageNames == {"ideate", "decide"}
ExitConditions == {"True", "False", "all_executed", "len_equals"}

END == "__end__"
ROUTER == "stage_router"
RAISED == "raised"
None == "None"

Range(s) == {s[i] : i \in 1..Len(s)}
SeqsUpTo(S, n) == UNION {[1..k -> S] : k \in 0..n}
EmptyDict == [k \in {} |-> <<>>]

\* dict.get(key, [])
Get(d, k) == IF k \in DOMAIN d THEN d[k] ELSE <<>>

(***************************************************************************)
(* Stage manifest and registry.                                            *)
(***************************************************************************)
StageMeta ==
    [name : StageNames,
     allowed_agents : SeqsUpTo(Roles, MaxAllowed),
     exit_condition : ExitConditions]

\* stage.json after the sort by priority
Manifests == UNION {[1..k -> StageMeta] : k \in 1..MaxStages}

\* StageRegistry._order after load_stages: one name per manifest entry
load_order(metas) == [i \in 1..Len(metas) |-> metas[i].name]

\* StageRegistry._stages after load_stages: a later entry of the same name
\* replaces the earlier one
load_stages(metas) ==
    [n \in {metas[i].name : i \in 1..Len(metas)} |->
        LET last == CHOOSE i \in 1..Len(metas) :
                        /\ metas[i].name = n
                        /\ \A j \in (i+1)..Len(metas) : metas[j].name # n
        IN  [allowed_agents |-> metas[last].allowed_agents,
             exit_condition |-> metas[last].exit_condition]]

VARIABLES
    order,                      \* StageRegistry._order
    stages,                     \* StageRegistry._stages
    shared,                     \* the state handed to a node holds the channel's own dict
    node,                       \* the node the graph runs next
    stage,                      \* channel "stage"
    done,                       \* channel "done"
    next_agent,                 \* channel "next_agent"
    history_agents,             \* channel "history_agents"
    executed_agents_per_stage,  \* channel "executed_agents_per_stage"
    dispatched                  \* log of the router's dispatches

graph_vars == <<order, stages, shared, node, stage, done, next_agent,
                history_agents, executed_agents_per_stage, dispatched>>

\* no run of the graph is under way
RunIdle ==
    /\ shared = FALSE
    /\ node = END
    /\ stage = "ideate"
    /\ done = FALSE
    /\ next_agent = None
    /\ history_agents = <<>>
    /\ executed_agents_per_stage = EmptyDict
    /\ dispatched = <<>>

\* the graph while no run is under way
GraphIdle ==
    /\ order = <<"ideate">>
    /\ stages = [n \in {"ideate"} |->
                    [allowed_agents |-> <<>>, exit_condition |-> "False"]]
    /\ shared = FALSE
    /\ node = END
    /\ stage = "ideate"
    /\ done = FALSE
    /\ next_agent = None
    /\ history_agents = <<>>
    /\ executed_agents_per_stage = EmptyDict
    /\ dispatched = <<>>

(***************************************************************************)
(* Tool gateway (runtime/tools): one ToolClient, built once by the         *)
(* platform and handed to every agent.                                     *)
(***************************************************************************)
Tools == {"web_search", "book_flight"}

VARIABLES
    policy,         \* ToolPolicy.policy: role -> tools the role may use
    tool_registry,  \* ToolRegistry._tools: the registered tool names
    caller,         \* role of the agent running _maybe_call_tools
    todo,           \* the agent's tools with trigger "always" still to call
    invoked,        \* tool bodies run so far, each with the agent it ran for
    lookups,        \* tool names looked up in the registry so far
    results,        \* what ToolClient.call gave back, call by call
    tool_status     \* "running", "returned", or "raised"

tool_vars == <<policy, tool_registry, caller, todo, invoked, lookups, results,
               tool_status>>

\* the gateway while no agent is dispatching tools
ToolsIdle ==
    /\ policy = [r \in Roles |-> {}]
    /\ tool_registry = {}
    /\ caller = None
    /\ todo = <<>>
    /\ invoked = {}
    /\ lookups = {}
    /\ results = <<>>
    /\ tool_status = "returned"

(***************************************************************************)
(* Orchestrator (runtime/orchestrator.py): drives one run of the graph.    *)
(***************************************************************************)
VARIABLES
    session_state,  \* Orchestrator.session_state
    returned        \* what Orchestrator.run gave its caller

orch_vars == <<session_state, returned>>

\* no call of Orchestrator.run is under way
OrchIdle ==
    /\ session_state = EmptyDict
    /\ returned = [kind |-> "idle"]

(***************************************************************************)
(* Graph build (GraphManager.build, StageGraph._build_graph).              *)
(***************************************************************************)
WORKSPACE == "ws"

VARIABLES
    agents,         \* AgentRegistry._agents: the roles that loaded
    terminal,       \* Stage.terminal of every registered stage
    graphs,         \* GraphManager._graphs: workspaces with a cached graph
    build_result    \* outcome of the last GraphManager.build

build_vars == <<agents, terminal, graphs, build_result>>

\* the workspace of the other specifications: every agent loaded, graph built
BuildIdle ==
    /\ agents = Roles
    /\ terminal = [n \in {} |-> FALSE]
    /\ graphs = {WORKSPACE}
    /\ build_result = "built"

(***************************************************************************)
(* Memory: InMemoryStore (llm/stores/adapters) and MemoryManager.          *)
(***************************************************************************)
Namespaces == {"A", "B"}
Keys == {"m", "k"}
Rewards == {2, 4}       \* rewards in eighths: 0.25 and 0.5

VARIABLES
    items,          \* the wrapped store: (namespace, key) -> value
    reward_cache,   \* MemoryManager._reward_cache: key -> rewards
    awaitable,      \* whether the wrapped store's methods return awaitables
    saves,          \* the save_semantic calls made so far
    only_saves,     \* every operation so far was a save_semantic with a reward
    n_ops,          \* operations made so far
    mem_result      \* the last operation and how it ended

mem_vars == <<items, reward_cache, awaitable, saves, only_saves, n_ops,
              mem_result>>

NoItems == [p \in {} |-> EmptyDict]
NoOp == [op |-> "none", namespace |-> None, outcome |-> "ok", deleted |-> {},
         found |-> {}]

\* a fresh store and manager, no operation made
MemFresh ==
    /\ items = NoItems
    /\ reward_cache = EmptyDict
    /\ saves = <<>>
    /\ only_saves = TRUE
    /\ n_ops = 0
    /\ mem_result = NoOp

MemIdle == MemFresh /\ awaitable = TRUE

(***************************************************************************)
(* ModelManager.generate.                                                  *)
(***************************************************************************)
VARIABLES
    gen_pc,         \* where the call of generate stands
    gen_args,       \* namespace, persist and reward of the call
    gen_calls       \* calls of generate so far

gen_vars == <<gen_pc, gen_args, gen_calls>>

NoArgs == [namespace |-> None, persist |-> FALSE, reward |-> <<>>]

GenIdle ==
    /\ gen_pc = "idle"
    /\ gen_args = NoArgs
    /\ gen_calls = 0

(***************************************************************************)
(* BaseSkill.run (agents/skills/base_skill.py): one run of one agent.      *)
(***************************************************************************)
VARIABLES
    context_meta,   \* context.json: the declared context entries, in order
    template_vars,  \* the entries whose names prompt.md refers to
    has_schema,     \* whether the agent has a schema.json
    output_mode,    \* skill.json output_mode
    skill_pc,       \* where the run stands
    context,        \* the resolved context: entry -> value
    output,         \* the model output, as run holds it
    skill_events,   \* events the run emitted on the event bus
    skill_delta     \* what run returned

skill_vars == <<context_meta, template_vars, has_schema, output_mode, skill_pc,
                context, output, skill_events, skill_delta>>

NoDelta == [k \in {} |-> <<>>]

\* a skill that is not running
SkillFresh ==
    /\ skill_pc = "start"
    /\ context = EmptyDict
    /\ output = None
    /\ skill_events = <<>>
    /\ skill_delta = NoDelta

SkillIdle ==
    /\ context_meta = <<>>
    /\ template_vars = {}
    /\ has_schema = FALSE
    /\ output_mode = "text"
    /\ SkillFresh

(***************************************************************************)
(* Hot reload (runtime/reload_manager.py) and the sessions of a workspace. *)
(* Artifact contents are numbered: 0 is what RuntimeManager loaded.        *)
(***************************************************************************)
VARIABLES
    artifacts,          \* the contents of the workspace directory now
    loader_kind,        \* what workspace_loaders holds for the workspace
    version_hash,       \* loader.version_hash, the hash recorded last
    registry_version,   \* the contents the agent and stage registries hold
    graph_built_from,   \* the contents the cached graph was compiled from
    polls,              \* iterations of _watch_workspace so far
    last_poll,          \* how the last iteration went
    session_pc,         \* the session: none, running, finished, KeyError
    session_graph,      \* the contents behind the graph the session holds
    session_registry,   \* the registry contents when the session started
    session_saw,        \* the registry contents the session's run has read
    session_steps,      \* node steps the session's run has made
    reloaded_in_flight  \* a change was detected while the session was running

reload_vars == <<artifacts, loader_kind, version_hash, registry_version,
                 graph_built_from, polls, last_poll, session_pc,
                 session_graph, session_registry, session_saw, session_steps,
                 reloaded_in_flight>>

NoPoll == [detected |-> FALSE, outcome |-> "none"]

\* the workspace as RuntimeManager.__init__ leaves it, no session created
ReloadFresh ==
    /\ artifacts = 0
    /\ version_hash = 0
    /\ registry_version = 0
    /\ graph_built_from = 0
    /\ polls = 0
    /\ last_poll = NoPoll
    /\ session_pc = "none"
    /\ session_graph = 0
    /\ session_registry = 0
    /\ session_saw = {}
    /\ session_steps = 0
    /\ reloaded_in_flight = FALSE

ReloadIdle == ReloadFresh /\ loader_kind = "dict"

(***************************************************************************)
(* EventBus (events/event_bus.py) under one driving coroutine on the       *)
(* asyncio event loop.                                                     *)
(***************************************************************************)
VARIABLES
    subscribers,    \* _subscribers[event_name]: "sync" or "async" callbacks
    emitted,        \* events the driving coroutine has emitted so far
    driver,         \* the driving coroutine: running, waiting or ended
    waiting_for,    \* the handler tasks the driver's gather waits for
    ready,          \* the event loop's queue of tasks that can run
    bus_log         \* callbacks called (recv) and completed (done), in order

bus_vars == <<subscribers, emitted, driver, waiting_for, ready, bus_log>>

BusFresh ==
    /\ emitted = 0
    /\ driver = "running"
    /\ waiting_for = {}
    /\ ready = <<>>
    /\ bus_log = <<>>

BusIdle == subscribers = <<>> /\ BusFresh

(***************************************************************************)
(* AgentRegistry (runtime/agent_registry.py).                              *)
(***************************************************************************)
VARIABLES
    agent_dirs,     \* the agent directories in sorted order
    next_dir,       \* the directory load_agents comes to next
    agent_of,       \* _agents: role -> the directory its agent came from
    roles_ordered   \* _roles_ordered

registry_vars == <<agent_dirs, next_dir, agent_of, roles_ordered>>

RegistryFresh ==
    /\ next_dir = 1
    /\ agent_of = [r \in {} |-> 0]
    /\ roles_ordered = <<>>

RegistryIdle == agent_dirs = <<>> /\ RegistryFresh

(***************************************************************************)
(* The executed_agents_per_stage channel under two agents of one stage     *)
(* whose deltas come from the same state.                                  *)
(***************************************************************************)
VARIABLES
    red_acc,        \* the channel's value that both agents were handed
    red_stage,      \* the stage both agents run in
    red_roles,      \* the two agents, in the order their deltas are merged
    red_out,        \* the channel's value now
    red_merged      \* deltas merged so far

reducer_vars == <<red_acc, red_stage, red_roles, red_out, red_merged>>

ReducerIdle ==
    /\ red_acc = EmptyDict
    /\ red_stage = "ideate"
    /\ red_roles = <<>>
    /\ red_out = EmptyDict
    /\ red_merged = 0

(***************************************************************************)
(* StageRegistry: the order of the stages after load_stages.               *)
(***************************************************************************)
VARIABLES
    stages_meta,    \* the "stages" entries of stage.json, as written
    reg_order,      \* StageRegistry._order
    walk,           \* first_stage(), then each next_stage() result in turn
    walk_pc         \* "new", "loaded", "walking", "ended" or "ValueError"

order_vars == <<stages_meta, reg_order, walk, walk_pc>>

OrderIdle ==
    /\ stages_meta = <<>>
    /\ reg_order = <<>>
    /\ walk = <<>>
    /\ walk_pc = "new"

(***************************************************************************)
(* MemoryManager._maybe_decay over a store that may expose stats and       *)
(* summarize.                                                              *)
(***************************************************************************)
VARIABLES
    has_stats,          \* hasattr(store, "stats")
    has_summarize,      \* hasattr(store, "summarize")
    decay_after,        \* MemoryManager.decay_after
    decay_calls,        \* save_semantic calls that reached _maybe_decay
    last_decay          \* the count reported in the last call, and whether
                        \* store.summarize was invoked in it

decay_vars == <<has_stats, has_summarize, decay_after, decay_calls, last_decay>>

NoDecay == [count |-> 0, summarized |-> FALSE]

DecayIdle ==
    /\ has_stats = FALSE
    /\ has_summarize = FALSE
    /\ decay_after = 1
    /\ decay_calls = 0
    /\ last_decay = NoDecay

(***************************************************************************)
(* RuntimeManager: the sessions of one workspace and the event bus they    *)
(* share.                                                                  *)
(***************************************************************************)
VARIABLES
    orchestrators,      \* _orchestrators: session id -> its Orchestrator
    n_created,          \* Orchestrator objects constructed so far
    subscribers_of,     \* EventBus._subscribers: event name -> callbacks
    issued,             \* the ids uuid4 has given out
    session_calls,      \* calls made on the runtime manager so far
    last_call,          \* the last session call, with the sessions before it
    handled             \* the last lifecycle event emitted and the handler
                        \* runs it caused

session_vars == <<orchestrators, n_created, subscribers_of, issued,
                  session_calls, last_call, handled>>

NoOrchestrators == [i \in {} |-> 0]
NoCall == [op |-> "none", arg |-> None, session_id |-> None,
           before |-> NoOrchestrators, created |-> 0, orchestrator |-> 0]
NoEvent == [event |-> None, runs |-> 0]

SessionsIdle ==
    /\ orchestrators = NoOrchestrators
    /\ n_created = 0
    /\ subscribers_of = [e \in {"agent_start", "agent_done"} |-> <<>>]
    /\ issued = {}
    /\ session_calls = 0
    /\ last_call = NoCall
    /\ handled = NoEvent

(***************************************************************************)
(* Frames: each specification runs one subsystem and leaves the others     *)
(* idle.                                                                   *)
(***************************************************************************)
vars == <<graph_vars, tool_vars, orch_vars, build_vars, mem_vars, gen_vars, skill_vars, reload_vars, bus_vars, registry_vars, reducer_vars, order_vars, decay_vars, session_vars>>

outside_graph == <<tool_vars, orch_vars, build_vars, mem_vars, gen_vars, skill_vars, reload_vars, bus_vars, registry_vars, reducer_vars, order_vars, decay_vars, session_vars>>
OutsideGraphIdle == ToolsIdle /\ OrchIdle /\ BuildIdle /\ MemIdle /\ GenIdle /\ SkillIdle /\ ReloadIdle /\ BusIdle /\ RegistryIdle /\ ReducerIdle /\ OrderIdle /\ DecayIdle /\ SessionsIdle

outside_tools == <<graph_vars, orch_vars, build_vars, mem_vars, gen_vars, skill_vars, reload_vars, bus_vars, registry_vars, reducer_vars, order_vars, decay_vars, session_vars>>
OutsideToolsIdle == GraphIdle /\ OrchIdle /\ BuildIdle /\ MemIdle /\ GenIdle /\ SkillIdle /\ ReloadIdle /\ BusIdle /\ RegistryIdle /\ ReducerIdle /\ OrderIdle /\ DecayIdle /\ SessionsIdle

outside_orch == <<tool_vars, build_vars, mem_vars, gen_vars, skill_vars, reload_vars, bus_vars, registry_vars, reducer_vars, order_vars, decay_vars, session_vars>>
OutsideOrchIdle == ToolsIdle /\ BuildIdle /\ MemIdle /\ GenIdle /\ SkillIdle /\ ReloadIdle /\ BusIdle /\ RegistryIdle /\ ReducerIdle /\ OrderIdle /\ DecayIdle /\ SessionsIdle

outside_build == <<tool_vars, orch_vars, mem_vars, gen_vars, skill_vars, reload_vars, bus_vars, registry_vars, reducer_vars, order_vars, decay_vars, session_vars>>
OutsideBuildIdle == ToolsIdle /\ OrchIdle /\ RunIdle /\ MemIdle /\ GenIdle /\ SkillIdle /\ ReloadIdle /\ BusIdle /\ RegistryIdle /\ ReducerIdle /\ OrderIdle /\ DecayIdle /\ SessionsIdle

outside_mem == <<graph_vars, tool_vars, orch_vars, build_vars, gen_vars, skill_vars, reload_vars, bus_vars, registry_vars, reducer_vars, order_vars, decay_vars, session_vars>>
OutsideMemIdle == GraphIdle /\ ToolsIdle /\ OrchIdle /\ BuildIdle /\ GenIdle /\ SkillIdle /\ ReloadIdle /\ BusIdle /\ RegistryIdle /\ ReducerIdle /\ OrderIdle /\ DecayIdle /\ SessionsIdle

outside_gen == <<graph_vars, tool_vars, orch_vars, build_vars, skill_vars, reload_vars, bus_vars, registry_vars, reducer_vars, order_vars, decay_vars, session_vars>>
OutsideGenIdle == GraphIdle /\ ToolsIdle /\ OrchIdle /\ BuildIdle /\ SkillIdle /\ ReloadIdle /\ BusIdle /\ RegistryIdle /\ ReducerIdle /\ OrderIdle /\ DecayIdle /\ SessionsIdle

outside_skill == <<graph_vars, tool_vars, orch_vars, build_vars, mem_vars, gen_vars, reload_vars, bus_vars, registry_vars, reducer_vars, order_vars, decay_vars, session_vars>>
OutsideSkillIdle == GraphIdle /\ ToolsIdle /\ OrchIdle /\ BuildIdle /\ MemIdle /\ GenIdle /\ ReloadIdle /\ BusIdle /\ RegistryIdle /\ ReducerIdle /\ OrderIdle /\ DecayIdle /\ SessionsIdle

outside_reload == <<graph_vars, tool_vars, orch_vars, build_vars, mem_vars, gen_vars, skill_vars, bus_vars, registry_vars, reducer_vars, order_vars, decay_vars, session_vars>>
OutsideReloadIdle == GraphIdle /\ ToolsIdle /\ OrchIdle /\ BuildIdle /\ MemIdle /\ GenIdle /\ SkillIdle /\ BusIdle /\ RegistryIdle /\ ReducerIdle /\ OrderIdle /\ DecayIdle /\ SessionsIdle

outside_bus == <<graph_vars, tool_vars, orch_vars, build_vars, mem_vars, gen_vars, skill_vars, reload_vars, registry_vars, reducer_vars, order_vars, decay_vars, session_vars>>
OutsideBusIdle == GraphIdle /\ ToolsIdle /\ OrchIdle /\ BuildIdle /\ MemIdle /\ GenIdle /\ SkillIdle /\ ReloadIdle /\ RegistryIdle /\ ReducerIdle /\ OrderIdle /\ DecayIdle /\ SessionsIdle

outside_registry == <<graph_vars, tool_vars, orch_vars, build_vars, mem_vars, gen_vars, skill_vars, reload_vars, bus_vars, reducer_vars, order_vars, decay_vars, session_vars>>
OutsideRegistryIdle == GraphIdle /\ ToolsIdle /\ OrchIdle /\ BuildIdle /\ MemIdle /\ GenIdle /\ SkillIdle /\ ReloadIdle /\ BusIdle /\ ReducerIdle /\ OrderIdle /\ DecayIdle /\ SessionsIdle

outside_reducer == <<graph_vars, tool_vars, orch_vars, build_vars, mem_vars, gen_vars, skill_vars, reload_vars, bus_vars, registry_vars, order_vars, decay_vars, session_vars>>
OutsideReducerIdle == GraphIdle /\ ToolsIdle /\ OrchIdle /\ BuildIdle /\ MemIdle /\ GenIdle /\ SkillIdle /\ ReloadIdle /\ BusIdle /\ RegistryIdle /\ OrderIdle /\ DecayIdle /\ SessionsIdle

outside_order == <<graph_vars, tool_vars, orch_vars, build_vars, mem_vars, gen_vars, skill_vars, reload_vars, bus_vars, registry_vars, reducer_vars, decay_vars, session_vars>>
OutsideOrderIdle == GraphIdle /\ ToolsIdle /\ OrchIdle /\ BuildIdle /\ MemIdle /\ GenIdle /\ SkillIdle /\ ReloadIdle /\ BusIdle /\ RegistryIdle /\ ReducerIdle /\ DecayIdle /\ SessionsIdle

outside_decay == <<graph_vars, tool_vars, orch_vars, build_vars, mem_vars, gen_vars, skill_vars, reload_vars, bus_vars, registry_vars, reducer_vars, order_vars, session_vars>>
OutsideDecayIdle == GraphIdle /\ ToolsIdle /\ OrchIdle /\ BuildIdle /\ MemIdle /\ GenIdle /\ SkillIdle /\ ReloadIdle /\ BusIdle /\ RegistryIdle /\ ReducerIdle /\ OrderIdle /\ SessionsIdle

outside_sessions == <<graph_vars, tool_vars, orch_vars, build_vars, mem_vars, gen_vars, skill_vars, reload_vars, bus_vars, registry_vars, reducer_vars, order_vars, decay_vars>>
OutsideSessionsIdle == GraphIdle /\ ToolsIdle /\ OrchIdle /\ BuildIdle /\ MemIdle /\ GenIdle /\ SkillIdle /\ ReloadIdle /\ BusIdle /\ RegistryIdle /\ ReducerIdle /\ OrderIdle /\ DecayIdle

registry == <<order, stages, shared>>

first_stage == order[1]

\* StageRegistry.next_stage over a given _order; index() is the first match
next_stage_in(ord, current_stage) ==
    IF current_stage \notin Range(ord)
    THEN None
    ELSE LET idx == CHOOSE i \in 1..Len(ord) :
                        /\ ord[i] = current_stage
                        /\ \A j \in 1..(i-1) : ord[j] # current_stage
         IN  IF idx + 1 <= Len(ord) THEN ord[idx + 1] ELSE None

next_stage(current_stage) == next_stage_in(order, current_stage)

\* Stage.should_exit over the modelled exit_condition expressions
should_exit(stage_name) ==
    LET st == stages[stage_name]
        executed == Get(executed_agents_per_stage, stage_name)
    IN  CASE st.exit_condition = "True" -> TRUE
          [] st.exit_condition = "False" -> FALSE
          [] st.exit_condition = "all_executed" ->
                \A a \in Range(st.allowed_agents) : a \in Range(executed)
          [] st.exit_condition = "len_equals" ->
                Len(executed) = Len(st.allowed_agents)

(***************************************************************************)
(* Channels (StageGraph.__init__).                                         *)
(***************************************************************************)
\* LastValue: a written value replaces the old one, otherwise it stays
LastValue(old, delta, key) == IF key \in DOMAIN delta THEN delta[key] ELSE old

\* next_agent is transient: it holds what the last node wrote, if anything
Transient(delta, key) == IF key \in DOMAIN delta THEN delta[key] ELSE None

\* Topic that keeps only the entries of the last write
Topic_overwrite(old, delta, key) == IF key \in DOMAIN delta THEN delta[key] ELSE old

\* Topic: the written entries are appended
Topic(old, delta, key) == IF key \in DOMAIN delta THEN old \o delta[key] ELSE old

\* reducer that keeps the last written list of a stage: {**acc, **x}
merge_executed_overwrite(acc, x) ==
    [s \in (DOMAIN acc) \cup (DOMAIN x) |->
        IF s \in DOMAIN x THEN x[s] ELSE acc[s]]

\* the reducer of executed_agents_per_stage:
\*   {**acc, **{stage: acc.get(stage, []) + agents for stage, agents in x.items()}}
merge_executed(acc, x) ==
    [s \in (DOMAIN acc) \cup (DOMAIN x) |->
        IF s \in DOMAIN x THEN Get(acc, s) \o x[s] ELSE acc[s]]

BinaryOperatorAggregate(old, delta, key) ==
    IF key \in DOMAIN delta THEN merge_executed(old, delta[key]) ELSE old

\* d[k] = v on a dict
Put(d, k, v) == [x \in (DOMAIN d) \cup {k} |-> IF x = k THEN v ELSE d[x]]

EmptyDelta == [k \in {} |-> None]

(***************************************************************************)
(* Router node (StageGraph._add_stage_router_node).                        *)
(***************************************************************************)
remaining(stage_name) ==
    SelectSeq(stages[stage_name].allowed_agents,
              LAMBDA a : a \notin Range(Get(executed_agents_per_stage, stage_name)))

\* router that sets done already when it advances into the last stage
stage_router_done_early ==
    LET stage_name == stage
        rem == remaining(stage_name)
    IN  IF rem # <<>>
        THEN [next_agent |-> rem[1]]
        ELSE IF should_exit(stage_name)
             THEN LET next_stage_name == next_stage(stage_name)
                  IN  IF next_stage_name = None
                      THEN [done |-> TRUE]
                      ELSE IF stages[next_stage_name].allowed_agents = <<>>
                           THEN [raised |-> "IndexError"]
                           ELSE [stage |-> next_stage_name,
                                 next_agent |-> stages[next_stage_name].allowed_agents[1],
                                 done |-> TRUE]
             ELSE [done |-> TRUE]

\* router that runs the stage's first agent again when exit_condition is false
stage_router_retry ==
    LET stage_name == stage
        rem == remaining(stage_name)
    IN  IF rem # <<>>
        THEN [next_agent |-> rem[1]]
        ELSE IF should_exit(stage_name)
             THEN LET next_stage_name == next_stage(stage_name)
                  IN  IF next_stage_name = None
                      THEN [done |-> TRUE]
                      ELSE IF stages[next_stage_name].allowed_agents = <<>>
                           THEN [raised |-> "IndexError"]
                           ELSE [stage |-> next_stage_name,
                                 next_agent |-> stages[next_stage_name].allowed_agents[1]]
             ELSE IF stages[stage_name].allowed_agents # <<>>
                  THEN [next_agent |-> stages[stage_name].allowed_agents[1]]
                  ELSE [done |-> TRUE]

\* router that, advancing, dispatches the first agent of the stage it leaves
stage_router_stale_agent ==
    LET stage_name == stage
        rem == remaining(stage_name)
    IN  IF rem # <<>>
        THEN [next_agent |-> rem[1]]
        ELSE IF should_exit(stage_name)
             THEN LET next_stage_name == next_stage(stage_name)
                  IN  IF next_stage_name = None
                      THEN [done |-> TRUE]
                      ELSE IF stages[next_stage_name].allowed_agents = <<>>
                           THEN [raised |-> "IndexError"]
                           ELSE IF stages[stage_name].allowed_agents # <<>>
                                THEN [stage |-> next_stage_name,
                                      next_agent |-> stages[stage_name].allowed_agents[1]]
                                ELSE [stage |-> next_stage_name,
                                      next_agent |-> stages[next_stage_name].allowed_agents[1]]
             ELSE [done |-> TRUE]

\* router that evaluates the exit of a last stage before the remaining agents
stage_router_exit_first ==
    LET stage_name == stage
        rem == remaining(stage_name)
    IN  IF should_exit(stage_name) /\ next_stage(stage_name) = None
        THEN [done |-> TRUE]
        ELSE IF rem # <<>>
        THEN [next_agent |-> rem[1]]
        ELSE IF should_exit(stage_name)
             THEN LET next_stage_name == next_stage(stage_name)
                  IN  IF stages[next_stage_name].allowed_agents = <<>>
                      THEN [raised |-> "IndexError"]
                      ELSE [stage |-> next_stage_name,
                            next_agent |-> stages[next_stage_name].allowed_agents[1]]
             ELSE [done |-> TRUE]

\* router that dispatches the last remaining agent of the stage
stage_router_last_remaining ==
    LET stage_name == stage
        rem == remaining(stage_name)
    IN  IF rem # <<>>
        THEN [next_agent |-> rem[Len(rem)]]
        ELSE IF should_exit(stage_name)
             THEN LET next_stage_name == next_stage(stage_name)
                  IN  IF next_stage_name = None
                      THEN [done |-> TRUE]
                      ELSE IF stages[next_stage_name].allowed_agents = <<>>
                           THEN [raised |-> "IndexError"]
                           ELSE [stage |-> next_stage_name,
                                 next_agent |-> stages[next_stage_name].allowed_agents[1]]
             ELSE [done |-> TRUE]

\* the delta the router returns; [raised |-> ...] when it raises instead
stage_router ==
    LET stage_name == stage
        rem == remaining(stage_name)
    IN  IF rem # <<>>
        THEN [next_agent |-> rem[1]]
        ELSE IF should_exit(stage_name)
             THEN LET next_stage_name == next_stage(stage_name)
                  IN  IF next_stage_name = None
                      THEN [done |-> TRUE]
                      ELSE IF stages[next_stage_name].allowed_agents = <<>>
                           THEN [raised |-> "IndexError"]
                           ELSE [stage |-> next_stage_name,
                                 next_agent |-> stages[next_stage_name].allowed_agents[1]]
             ELSE [done |-> TRUE]

\* the conditional edge out of the router, on the state after the merge:
\*   lambda s: [s["next_agent"]] if s.get("next_agent") else [END]
router_edge(s_next_agent) == IF s_next_agent # None THEN s_next_agent ELSE END

(***************************************************************************)
(* Agent node (StageGraph._make_agent_node).                               *)
(***************************************************************************)
\* the list the node holds after setdefault and the guarded append
executed_after(role) ==
    LET executed == Get(executed_agents_per_stage, stage)
    IN  IF role \notin Range(executed) THEN Append(executed, role) ELSE executed

\* agent node that files its entry under the session's first stage
agent_node_first_stage(role) ==
    LET stage_name == stage
    IN  IF role \notin Range(stages[stage_name].allowed_agents)
        THEN EmptyDelta
        ELSE [executed_agents_per_stage |->
                 [s \in {stage_name} |-> executed_after(role)],
              history_agents |->
                 << [stage |-> first_stage, role |-> role] >>]

\* agent node that also reports the run as done
agent_node_sets_done(role) ==
    LET stage_name == stage
    IN  IF role \notin Range(stages[stage_name].allowed_agents)
        THEN EmptyDelta
        ELSE [executed_agents_per_stage |->
                 [s \in {stage_name} |-> executed_after(role)],
              history_agents |->
                 << [stage |-> stage_name, role |-> role] >>,
              done |-> TRUE]

agent_node(role) ==
    LET stage_name == stage
    IN  IF role \notin Range(stages[stage_name].allowed_agents)
        THEN EmptyDelta
        ELSE [executed_agents_per_stage |->
                 [s \in {stage_name} |-> executed_after(role)],
              history_agents |->
                 << [stage |-> stage_name, role |-> role] >>]

\* the channel's dict when the node returns: the node appends in place, which
\* reaches the channel when the state it was handed holds the channel's dict
channel_after_node(role) ==
    IF shared /\ role \in Range(stages[stage].allowed_agents)
    THEN Put(executed_agents_per_stage, stage, executed_after(role))
    ELSE executed_agents_per_stage

(***************************************************************************)
(* The run.                                                                *)
(***************************************************************************)
\* RuntimeManager.run_user_message: the initial state, entry point the router
GraphInit ==
    /\ \E metas \in Manifests :
          /\ order = load_order(metas)
          /\ stages = load_stages(metas)
    /\ shared \in BOOLEAN
    /\ node = ROUTER
    /\ stage = first_stage
    /\ done = FALSE
    /\ next_agent = None
    /\ history_agents = <<>>
    /\ executed_agents_per_stage = EmptyDict
    /\ dispatched = <<>>

Init == GraphInit /\ OutsideGraphIdle

StageRouterStep ==
    /\ node = ROUTER
    /\ LET delta == stage_router
       IN  IF "raised" \in DOMAIN delta
           THEN /\ node' = RAISED
                /\ UNCHANGED <<stage, done, next_agent, dispatched>>
           ELSE /\ stage' = LastValue(stage, delta, "stage")
                /\ done' = LastValue(done, delta, "done")
                /\ next_agent' = Transient(delta, "next_agent")
                /\ node' = router_edge(next_agent')
                /\ dispatched' =
                      IF node' # END
                      THEN Append(dispatched,
                                  [read |-> stage, stage |-> stage', role |-> node'])
                      ELSE dispatched
    /\ UNCHANGED <<registry, history_agents, executed_agents_per_stage>>
    /\ UNCHANGED outside_graph

AgentNodeStep(role) ==
    /\ node = role
    /\ Len(history_agents) < MaxHistory
    /\ LET delta == agent_node(role)
       IN  /\ history_agents' = Topic(history_agents, delta, "history_agents")
           /\ executed_agents_per_stage' =
                 BinaryOperatorAggregate(channel_after_node(role), delta,
                                         "executed_agents_per_stage")
           /\ next_agent' = Transient(delta, "next_agent")
           /\ stage' = LastValue(stage, delta, "stage")
           /\ done' = LastValue(done, delta, "done")
    /\ node' = ROUTER
    /\ UNCHANGED <<registry, dispatched>>
    /\ UNCHANGED outside_graph

Next ==
    \/ StageRouterStep
    \/ \E role \in Roles : AgentNodeStep(role)

Spec == Init /\ [][Next]_vars

\* the graph executor always runs the node it has scheduled
FairSpec == Spec /\ WF_vars(Next)

TypeOK ==
    /\ node \in Roles \cup {ROUTER, END, RAISED}
    /\ stage \in Range(order)
    /\ done \in BOOLEAN
    /\ next_agent \in Roles \cup {None}

(***************************************************************************)
(* Helpers of the properties.                                              *)
(***************************************************************************)
NoDuplicates(s) == \A i, j \in 1..Len(s) : s[i] = s[j] => i = j

RECURSIVE IsSubsequence(_, _)
IsSubsequence(e, a) ==
    IF e = <<>> THEN TRUE
    ELSE IF a = <<>> THEN FALSE
    ELSE IF Head(e) = Head(a) THEN IsSubsequence(Tail(e), Tail(a))
    ELSE IsSubsequence(e, Tail(a))

RECURSIVE TotalExecuted(_)
TotalExecuted(names) ==
    IF names = {} THEN 0
    ELSE LET n == CHOOSE x \in names : TRUE
         IN  Len(executed_agents_per_stage[n]) + TotalExecuted(names \ {n})

RolesOf(entries) == [i \in 1..Len(entries) |-> entries[i].role]

AtRouterOrEnd == node \in {ROUTER, END}

DistinctNames == \A i, j \in 1..Len(order) : order[i] = order[j] => i = j

\* C1: for every stage s, executed_agents_per_stage[s] is a subsequence of
\* the stage's allowed_agents in declaration order, no role twice
C1_ExecutedSubsequence ==
    \A s \in DOMAIN executed_agents_per_stage :
        /\ IsSubsequence(executed_agents_per_stage[s], stages[s].allowed_agents)
        /\ NoDuplicates(executed_agents_per_stage[s])

\* C2: at each router visit and at termination, the length of history_agents
\* is the summed length of the lists of executed_agents_per_stage
C2_HistoryCount ==
    AtRouterOrEnd =>
        Len(history_agents) = TotalExecuted(DOMAIN executed_agents_per_stage)

\* C4: history_agents never holds two entries of the same stage and role
C4_OncePerStage == NoDuplicates(history_agents)

\* C3: once done = true no node runs: no step is taken from a state with done
C3_NoNodeAfterDone == [][~done]_vars

C3_Witness == done /\ node = END /\ history_agents # <<>>

\* C5: every run reaches the terminal sentinel (or leaves the explored bound)
C5_Terminates == <>(node = END \/ Len(history_agents) >= MaxHistory)

\* the router visit of C6: nothing remains in the current stage and its
\* exit_condition is false
AllRanExitFalse == remaining(stage) = <<>> /\ ~should_exit(stage)

\* C6: a router visit with every allowed agent executed and exit_condition
\* false routes to the terminal sentinel, dispatches nothing, and no node
\* runs after the terminal sentinel
C6_ExitFalseEnds ==
    [][/\ node # END
       /\ (node = ROUTER /\ AllRanExitFalse) =>
             (node' = END /\ dispatched' = dispatched
                          /\ history_agents' = history_agents)]_vars

C6_Witness ==
    /\ node = END
    /\ AllRanExitFalse
    /\ Len(history_agents) = Len(stages[stage].allowed_agents)
    /\ Len(history_agents) = 2

\* the workspace of C7: ideate [opt, crit] exits when both have executed,
\* then decide [synth]
Scenario2 ==
    /\ order = <<"ideate", "decide">>
    /\ stages["ideate"].allowed_agents = <<"opt", "crit">>
    /\ stages["ideate"].exit_condition = "all_executed"
    /\ stages["decide"].allowed_agents = <<"synth">>

\* C7: the run of that workspace ends with history opt, crit, synth,
\* executed_agents_per_stage = {ideate: [opt, crit], decide: [synth]},
\* stage = decide and done = true
C7_TwoStageAdvance ==
    (Scenario2 /\ node = END) =>
        /\ RolesOf(history_agents) = <<"opt", "crit", "synth">>
        /\ executed_agents_per_stage =
              [s \in {"ideate", "decide"} |->
                  IF s = "ideate" THEN <<"opt", "crit">> ELSE <<"synth">>]
        /\ stage = "decide"
        /\ done

Advances == node = ROUTER /\ "stage" \in DOMAIN stage_router

C9_HistoryRolesAllowed ==
    \A i \in 1..Len(history_agents) :
        history_agents[i].role \in
            Range(stages[history_agents[i].stage].allowed_agents)

C9_Witness ==
    /\ Len(history_agents) = 3
    /\ history_agents[1].stage # history_agents[3].stage
    /\ history_agents[1].role # history_agents[3].role

IsPrefix(a, b) == Len(a) <= Len(b) /\ \A i \in 1..Len(a) : a[i] = b[i]

\* C10: the roles of history_agents are the roles the router dispatched, in
\* the same order, and history_agents never shrinks
C10_HistoryFollowsDispatch ==
    /\ [](/\ IsPrefix(RolesOf(history_agents), RolesOf(dispatched))
          /\ Len(dispatched) - Len(history_agents) \in {0, 1}
          /\ AtRouterOrEnd => Len(dispatched) = Len(history_agents))
    /\ [][IsPrefix(history_agents, history_agents')]_vars

C10_Witness ==
    /\ node = END
    /\ Len(history_agents) = 4
    /\ RolesOf(history_agents) = RolesOf(dispatched)

\* C24: the delta an agent node returns holds no key but history_agents and
\* executed_agents_per_stage, and its step leaves stage and done as they were
C24_AgentWritesNoControl ==
    [][(node \in Roles) =>
          (/\ DOMAIN agent_node(node) \subseteq
                 {"history_agents", "executed_agents_per_stage"}
           /\ stage' = stage
           /\ done' = done)
      ]_vars

C24_Witness ==
    /\ node = ROUTER
    /\ stage = "decide"
    /\ ~done
    /\ Len(history_agents) = 2
    /\ history_agents[2].stage = "decide"

\* the stage the run is in has a trivially true exit_condition and no
\* successor
TrivialLast ==
    /\ stages[stage].exit_condition = "True"
    /\ next_stage(stage) = None

\* the first router visit of the run
FirstVisit ==
    /\ node = ROUTER
    /\ dispatched = <<>>
    /\ history_agents = <<>>

\* C17 as stated: in a stage with a trivially true exit_condition and no
\* successor, the first router visit of the run produces done = true
C17_FirstVisitDone ==
    [][(FirstVisit /\ TrivialLast) => done']_vars

\* C17: in such a stage a router visit produces done = true and ends the run
\* when no allowed agent remains, and otherwise dispatches the first
\* remaining agent and leaves done false
C17_DoneWhenNoneRemains ==
    [][(node = ROUTER /\ TrivialLast) =>
          IF remaining(stage) = <<>>
          THEN done' /\ node' = END
          ELSE ~done' /\ node' = remaining(stage)[1]]_vars

C17_Witness ==
    /\ TrivialLast
    /\ done
    /\ node = END
    /\ DistinctNames
    /\ Len(stages[stage].allowed_agents) = 2
    /\ history_agents # <<>>

\* the allowed agents of a stage with no run in that stage yet, in
\* declaration order
NotYetExecuted(stage_name) ==
    SelectSeq(stages[stage_name].allowed_agents,
              LAMBDA a : \A i \in 1..Len(history_agents) :
                            ~(/\ history_agents[i].stage = stage_name
                              /\ history_agents[i].role = a))

\* C31: when an allowed agent of the current stage has not executed yet, the
\* router routes to the first such agent in declaration order and changes
\* neither stage nor done
C31_RoutesFirstRemaining ==
    [][(node = ROUTER /\ NotYetExecuted(stage) # <<>>) =>
          (/\ node' = NotYetExecuted(stage)[1]
           /\ next_agent' = NotYetExecuted(stage)[1]
           /\ stage' = stage
           /\ done' = done)
      ]_vars

C31_Witness ==
    /\ node \in Roles
    /\ Len(stages[stage].allowed_agents) = 2
    /\ stages[stage].allowed_agents[1] # stages[stage].allowed_agents[2]
    /\ node = stages[stage].allowed_agents[2]
    /\ Len(history_agents) = 1
    /\ history_agents[1].role = stages[stage].allowed_agents[1]
    /\ history_agents[1].stage = stage
    /\ ~done

\* state["agent"] as an agent node finds it: the initial state of
\* run_user_message has no such key, no channel carries it and no node
\* returns it; the node writes it into the state it was handed only
agent_at_entry == None

\* C33: an agent node invoked while state.agent differs from its role, or
\* while its role is not among the allowed agents of the current stage,
\* returns an empty delta and leaves history_agents and
\* executed_agents_per_stage as they were
C33_GuardedNodeEmpty ==
    [][(/\ node \in Roles
        /\ \/ agent_at_entry # node
           \/ node \notin Range(stages[stage].allowed_agents)) =>
          (/\ DOMAIN agent_node(node) = {}
           /\ history_agents' = history_agents
           /\ executed_agents_per_stage' = executed_agents_per_stage)
      ]_vars

(***************************************************************************)
(* The run over a manifest whose stages carry the terminal flag.           *)
(***************************************************************************)
\* Stage.__init__: terminal is read from the manifest entry of each stage
TerminalInit ==
    /\ GraphInit
    /\ terminal \in [DOMAIN stages -> BOOLEAN]
    /\ agents = Roles
    /\ graphs = {WORKSPACE}
    /\ build_result = "built"
    /\ ToolsIdle /\ OrchIdle /\ MemIdle /\ GenIdle /\ SkillIdle
    /\ ReloadIdle /\ BusIdle /\ RegistryIdle /\ ReducerIdle /\ OrderIdle
    /\ DecayIdle /\ SessionsIdle

TerminalSpec == TerminalInit /\ [][Next]_vars

\* C32: a router visit with every allowed agent of the stage executed, its
\* exit_condition true and the stage marked terminal emits done = true and
\* ends the run, also when another stage follows
C32_TerminalStageEnds ==
    [][(/\ node = ROUTER
        /\ remaining(stage) = <<>>
        /\ should_exit(stage)
        /\ terminal[stage]) => (done' /\ node' = END)
      ]_vars

(***************************************************************************)
(* Tool gateway: ToolPolicy, ToolRegistry, ToolClient.                     *)
(***************************************************************************)
MaxTools == 2       \* tools with trigger "always" in one agent's skill.json

\* Platform.initialize: ToolClient(registry, policy, agent_role="critic")
CLIENT_ROLE == "crit"

\* ToolPolicy.check
check(agent_role, tool_name) == tool_name \in policy[agent_role]

\* ToolClient.call that looks the tool up before it asks the policy
call_lookup_first(tool_name, body_ok) ==
    IF tool_name \notin tool_registry
    THEN [outcome |-> "KeyError", lookup |-> TRUE, body |-> FALSE]
    ELSE IF check(CLIENT_ROLE, tool_name)
         THEN IF body_ok
              THEN [outcome |-> "result", lookup |-> TRUE, body |-> TRUE]
              ELSE [outcome |-> "ToolError", lookup |-> TRUE, body |-> TRUE]
         ELSE [outcome |-> "empty", lookup |-> TRUE, body |-> FALSE]

\* ToolClient.call: what it gives back, whether it looked the tool up in the
\* registry and whether the tool's body ran; body_ok is the outcome of the body
call(tool_name, body_ok) ==
    IF check(CLIENT_ROLE, tool_name)
    THEN IF tool_name \notin tool_registry
         THEN [outcome |-> "KeyError", lookup |-> TRUE, body |-> FALSE]
         ELSE IF body_ok
              THEN [outcome |-> "result", lookup |-> TRUE, body |-> TRUE]
              ELSE [outcome |-> "ToolError", lookup |-> TRUE, body |-> TRUE]
    ELSE [outcome |-> "empty", lookup |-> FALSE, body |-> FALSE]

\* an agent with its skill.json tools reaches _maybe_call_tools
ToolsInit ==
    /\ policy \in [Roles -> SUBSET Tools]
    /\ tool_registry \in SUBSET Tools
    /\ caller \in Roles
    /\ todo \in SeqsUpTo(Tools, MaxTools)
    /\ invoked = {}
    /\ lookups = {}
    /\ results = <<>>
    /\ tool_status = "running"
    /\ OutsideToolsIdle

\* one round of the loop of _maybe_call_tools
MaybeCallTool ==
    /\ tool_status = "running"
    /\ todo # <<>>
    /\ \E body_ok \in BOOLEAN :
          LET tool_name == Head(todo)
              r == call(tool_name, body_ok)
          IN  /\ lookups' = IF r.lookup THEN lookups \cup {tool_name} ELSE lookups
              /\ invoked' = IF r.body
                            THEN invoked \cup {[agent |-> caller, tool |-> tool_name]}
                            ELSE invoked
              /\ tool_status' = IF r.outcome \in {"KeyError", "ToolError"}
                                THEN "raised" ELSE "running"
              /\ todo' = IF r.outcome \in {"KeyError", "ToolError"}
                         THEN todo ELSE Tail(todo)
              /\ results' = IF r.outcome \in {"KeyError", "ToolError"}
                            THEN results
                            ELSE Append(results, [tool |-> tool_name,
                                                  value |-> r.outcome])
    /\ UNCHANGED <<policy, tool_registry, caller>>
    /\ UNCHANGED outside_tools

\* the loop is over and the agent goes on to emit its delta
ToolsDone ==
    /\ tool_status = "running"
    /\ todo = <<>>
    /\ tool_status' = "returned"
    /\ UNCHANGED <<policy, tool_registry, caller, todo, invoked, lookups, results>>
    /\ UNCHANGED outside_tools

ToolsNext ==
    \/ MaybeCallTool
    \/ ToolsDone

ToolsSpec == ToolsInit /\ [][ToolsNext]_vars

\* C11: a tool body runs on behalf of agent r only if the policy lists the
\* tool for r
C11_PolicyRespected ==
    \A c \in invoked : c.tool \in policy[c.agent]

\* the call at the head of the loop is denied by the policy for the client's role
DeniedCall ==
    /\ tool_status = "running"
    /\ todo # <<>>
    /\ ~check(CLIENT_ROLE, Head(todo))

\* C12: a call the policy denies for the client's role returns the empty
\* result: nothing is raised, the registry is not consulted, no body runs,
\* and the agent's loop goes on with its next tool
C12_DeniedReturnsEmpty ==
    [][DeniedCall =>
          /\ tool_status' = "running"
          /\ todo' = Tail(todo)
          /\ results' = Append(results, [tool |-> Head(todo), value |-> "empty"])
          /\ lookups' = lookups
          /\ invoked' = invoked]_vars

\* a registered tool was denied and the agent went on to run an allowed one
C12_Witness ==
    /\ tool_status = "returned"
    /\ Len(results) = 2
    /\ results[1].value = "empty"
    /\ results[1].tool \in tool_registry
    /\ results[2].value = "result"

(***************************************************************************)
(* Orchestrator.run around the graph.                                      *)
(***************************************************************************)
\* Orchestrator.__init__ and the entry of run
OrchInit ==
    /\ GraphInit
    /\ session_state = EmptyDict
    /\ returned = [kind |-> "pending"]
    /\ OutsideOrchIdle

\* agent.run raises inside the node (a model call, a tool or the prompt
\* rendering fails): nothing in the node catches it
AgentNodeFails(role) ==
    /\ node = role
    /\ returned.kind = "pending"
    /\ role \in Range(stages[stage].allowed_agents)
    /\ node' = RAISED
    /\ UNCHANGED <<registry, stage, done, next_agent, history_agents,
                   executed_agents_per_stage, dispatched>>
    /\ UNCHANGED <<outside_orch, orch_vars>>

\* graph.astream is exhausted: run returns self.session_state
OrchestratorReturns ==
    /\ node = END
    /\ returned.kind = "pending"
    /\ returned' = [kind |-> "state", value |-> session_state]
    /\ UNCHANGED <<graph_vars, outside_orch, session_state>>

\* an exception of a node leaves graph.astream and run
OrchestratorRaises ==
    /\ node = RAISED
    /\ returned.kind = "pending"
    /\ returned' = [kind |-> "raised"]
    /\ UNCHANGED <<graph_vars, outside_orch, session_state>>

OrchNext ==
    \/ StageRouterStep
    \/ \E role \in Roles : AgentNodeStep(role)
    \/ \E role \in Roles : AgentNodeFails(role)
    \/ OrchestratorReturns
    \/ OrchestratorRaises

OrchSpec == OrchInit /\ [][OrchNext]_vars

\* C13: the state run returns holds what the nodes emitted, merged under the
\* channel rules: history_agents, executed_agents_per_stage, stage and done
C13_ReturnsFinalState ==
    returned.kind = "state" =>
        /\ {"history_agents", "executed_agents_per_stage", "stage", "done"}
              \subseteq DOMAIN returned.value
        /\ returned.value["history_agents"] = history_agents
        /\ returned.value["executed_agents_per_stage"] = executed_agents_per_stage
        /\ returned.value["stage"] = stage
        /\ returned.value["done"] = done

\* C14: run never lets an exception escape, and the state it returns has
\* done = true
C14_AlwaysDone ==
    /\ returned.kind # "raised"
    /\ returned.kind = "state" =>
          /\ "done" \in DOMAIN returned.value
          /\ returned.value["done"] = TRUE

(***************************************************************************)
(* Graph build.                                                            *)
(***************************************************************************)
\* step 1 of _build_graph that looks at the first stage only
validates_first_stage_only ==
    \A agent_role \in Range(stages[first_stage].allowed_agents) :
        agent_role \in agents

\* step 1 of _build_graph: every allowed agent of every stage is loaded
validates ==
    \A stage_name \in DOMAIN stages :
        \A agent_role \in Range(stages[stage_name].allowed_agents) :
            agent_role \in agents

\* RuntimeManager.__init__: registries loaded, nothing built yet
BuildInit ==
    /\ \E metas \in Manifests :
          /\ \A i \in 1..Len(metas) : metas[i].exit_condition = "True"
          /\ order = load_order(metas)
          /\ stages = load_stages(metas)
    /\ terminal \in [DOMAIN stages -> BOOLEAN]
    /\ agents \in SUBSET Roles
    /\ graphs = {}
    /\ build_result = "none"
    /\ OutsideBuildIdle

\* GraphManager.build
Build ==
    /\ IF WORKSPACE \in graphs
       THEN /\ build_result' = "cached"
            /\ graphs' = graphs
       ELSE IF ~validates
            THEN /\ build_result' = "ValueError"
                 /\ graphs' = graphs
            ELSE /\ build_result' = "built"
                 /\ graphs' = graphs \cup {WORKSPACE}
    /\ UNCHANGED <<agents, terminal, graph_vars, outside_build>>

\* GraphManager.invalidate
Invalidate ==
    /\ graphs' = graphs \ {WORKSPACE}
    /\ UNCHANGED <<agents, terminal, build_result, graph_vars, outside_build>>

BuildNext ==
    \/ Build
    \/ Invalidate

BuildSpec == BuildInit /\ [][BuildNext]_vars

\* some stage allows a role that the agent registry does not hold
MissingAgent ==
    \E stage_name \in DOMAIN stages :
        \E agent_role \in Range(stages[stage_name].allowed_agents) :
            agent_role \notin agents

\* C15: with a stage that allows a role missing from the agent registry,
\* every build fails and no graph is cached
C15_MissingAgentFailsBuild ==
    MissingAgent =>
        /\ graphs = {}
        /\ build_result \in {"none", "ValueError"}

C15_Witness ==
    /\ build_result = "ValueError"
    /\ Len(order) = 2
    /\ \A agent_role \in Range(stages[first_stage].allowed_agents) :
          agent_role \in agents

\* a stage that is not terminal, is followed by another stage and allows no
\* agent
EmptyNonTerminal ==
    \E i \in 1..(Len(order) - 1) :
        /\ ~terminal[order[i]]
        /\ stages[order[i]].allowed_agents = <<>>

\* C16: with a non-terminal stage whose allowed_agents is empty, build fails
C16_EmptyStageFailsBuild ==
    EmptyNonTerminal => build_result \in {"none", "ValueError"}

(***************************************************************************)
(* InMemoryStore over the wrapped store.  Every operation gives the store  *)
(* after it and how it ended; an awaited result that is not awaitable      *)
(* raises TypeError after the wrapped call has taken effect.               *)
(***************************************************************************)
MaxOps == 3

awaited == IF awaitable THEN "ok" ELSE "TypeError"

keys_of(its, namespace) == {key \in Keys \cup {"last_query", "last_query:reflection"} :
                               <<namespace, key>> \in DOMAIN its}

\* InMemoryStore.put
put(its, namespace, key, value) ==
    [items |-> Put(its, <<namespace, key>>, value), outcome |-> awaited]

\* InMemoryStore.get: <<>> for None
get(its, namespace, key) ==
    [value |-> IF <<namespace, key>> \in DOMAIN its
               THEN <<its[<<namespace, key>>]>> ELSE <<>>,
     outcome |-> awaited]

\* InMemoryStore.delete
delete(its, namespace, key) ==
    [items |-> [p \in DOMAIN its \ {<<namespace, key>>} |-> its[p]],
     outcome |-> awaited]

\* clear_namespace that removes the namespace's keys from every namespace
clear_namespace_every(its, namespace) ==
    IF awaitable
    THEN [items |-> [p \in {q \in DOMAIN its :
                               q[2] \notin keys_of(its, namespace)} |-> its[p]],
          outcome |-> "ok"]
    ELSE [items |-> its, outcome |-> "TypeError"]

\* InMemoryStore.clear_namespace: deletes each key that keys() lists
clear_namespace(its, namespace) ==
    IF awaitable
    THEN [items |-> [p \in {q \in DOMAIN its : q[1] # namespace} |-> its[p]],
          outcome |-> "ok"]
    ELSE [items |-> its, outcome |-> "TypeError"]

(***************************************************************************)
(* MemoryManager.                                                          *)
(***************************************************************************)
RECURSIVE Sum(_)
Sum(rewards) == IF rewards = <<>> THEN 0 ELSE Head(rewards) + Sum(Tail(rewards))

\* statistics.mean as the fraction num/den
mean(rewards) == [num |-> Sum(rewards), den |-> Len(rewards)]

\* the entry that save_semantic builds
semantic_entry(reward) ==
    [kind |-> "semantic", reward |-> reward, metadata |-> EmptyDict]

\* the entry that save_episode builds
episode_entry == [kind |-> "episode", reward |-> <<>>, metadata |-> EmptyDict]

\* MemoryManager._update_reward_stats, the cache already holding the reward
_update_reward_stats(its, cache, namespace, key) ==
    LET rewards == Get(cache, key)
        current_entry == get(its, namespace, key)
    IN  IF rewards = <<>>
        THEN [items |-> its, outcome |-> "ok"]
        ELSE IF current_entry.outcome # "ok"
        THEN [items |-> its, outcome |-> current_entry.outcome]
        ELSE IF current_entry.value = <<>>
        THEN [items |-> its, outcome |-> "ok"]
        ELSE LET entry == current_entry.value[1]
                 updated == [entry EXCEPT !.metadata =
                                Put(Put(@, "avg_reward", mean(rewards)),
                                    "reward_count", Len(rewards))]
             IN  put(its, namespace, key, updated)

\* MemoryManager.save_semantic.  _save_semantics calls the store's coroutine
\* function put in a worker thread and drops the coroutine it gets: the
\* entry is not written.  _maybe_decay changes nothing and swallows its
\* exceptions.
save_semantic(its, cache, namespace, key, reward) ==
    IF reward = <<>>
    THEN [items |-> its, reward_cache |-> cache, outcome |-> "ok"]
    ELSE LET appended == Put(cache, key, Append(Get(cache, key), reward[1]))
             stats == _update_reward_stats(its, appended, namespace, key)
         IN  [items |-> stats.items, reward_cache |-> appended,
              outcome |-> stats.outcome]

\* MemoryManager.save_episode
save_episode(its, namespace, key) == put(its, namespace, key, episode_entry)

MaxTopK == 2

\* InMemoryStore.search with semantic search enabled: the results the wrapped
\* store may give for a query, at most limit items of the namespace.  put
\* hands every value to the wrapped store in the same way, whatever its
\* semantic argument.
search(its, namespace, limit) ==
    {found \in SUBSET {p \in DOMAIN its : p[1] = namespace} :
        Cardinality(found) <= limit}

\* MemoryManager.retrieve_semantic
retrieve_semantic(its, namespace, top_k) == search(its, namespace, top_k)

MemInit ==
    /\ MemFresh
    /\ awaitable \in BOOLEAN
    /\ OutsideMemIdle

Ended(op, namespace, outcome, deleted) ==
    [op |-> op, namespace |-> namespace, outcome |-> outcome,
     deleted |-> deleted, found |-> {}]

StorePut(namespace, key, value) ==
    /\ n_ops < MaxOps
    /\ LET r == put(items, namespace, key, value)
       IN  /\ items' = r.items
           /\ mem_result' = Ended("put", namespace, r.outcome, {})
    /\ n_ops' = n_ops + 1
    /\ only_saves' = FALSE
    /\ UNCHANGED <<reward_cache, awaitable, saves, outside_mem>>

StoreDelete(namespace, key) ==
    /\ n_ops < MaxOps
    /\ LET r == delete(items, namespace, key)
       IN  /\ items' = r.items
           /\ mem_result' = Ended("delete", namespace, r.outcome,
                                  DOMAIN items \ DOMAIN r.items)
    /\ n_ops' = n_ops + 1
    /\ only_saves' = FALSE
    /\ UNCHANGED <<reward_cache, awaitable, saves, outside_mem>>

StoreClearNamespace(namespace) ==
    /\ n_ops < MaxOps
    /\ LET r == clear_namespace(items, namespace)
       IN  /\ items' = r.items
           /\ mem_result' = Ended("clear_namespace", namespace, r.outcome,
                                  DOMAIN items \ DOMAIN r.items)
    /\ n_ops' = n_ops + 1
    /\ only_saves' = FALSE
    /\ UNCHANGED <<reward_cache, awaitable, saves, outside_mem>>

SaveSemantic(namespace, key, reward) ==
    /\ n_ops < MaxOps
    /\ LET r == save_semantic(items, reward_cache, namespace, key, reward)
       IN  /\ items' = r.items
           /\ reward_cache' = r.reward_cache
           /\ mem_result' = Ended("save_semantic", namespace, r.outcome, {})
    /\ n_ops' = n_ops + 1
    /\ saves' = Append(saves, [namespace |-> namespace, key |-> key,
                               reward |-> reward])
    /\ only_saves' = (only_saves /\ reward # <<>>)
    /\ UNCHANGED <<awaitable, outside_mem>>

SaveEpisode(namespace, key) ==
    /\ n_ops < MaxOps
    /\ LET r == save_episode(items, namespace, key)
       IN  /\ items' = r.items
           /\ mem_result' = Ended("save_episode", namespace, r.outcome, {})
    /\ n_ops' = n_ops + 1
    /\ only_saves' = FALSE
    /\ UNCHANGED <<reward_cache, awaitable, saves, outside_mem>>

RetrieveSemanticCalled(namespace, top_k) ==
    /\ n_ops < MaxOps
    /\ \E found \in retrieve_semantic(items, namespace, top_k) :
          mem_result' = [Ended("retrieve_semantic", namespace, "ok", {})
                            EXCEPT !.found = found]
    /\ n_ops' = n_ops + 1
    /\ only_saves' = FALSE
    /\ UNCHANGED <<items, reward_cache, awaitable, saves, outside_mem>>

MemNext ==
    \/ \E namespace \in Namespaces, key \in Keys :
          \E reward \in {<<>>} \cup {<<r>> : r \in Rewards} :
             \/ StorePut(namespace, key, semantic_entry(reward))
             \/ SaveSemantic(namespace, key, reward)
    \/ \E namespace \in Namespaces, key \in Keys : StoreDelete(namespace, key)
    \/ \E namespace \in Namespaces : StoreClearNamespace(namespace)
    \/ \E namespace \in Namespaces, key \in Keys : SaveEpisode(namespace, key)
    \/ \E namespace \in Namespaces, top_k \in 1..MaxTopK :
          RetrieveSemanticCalled(namespace, top_k)

MemSpec == MemInit /\ [][MemNext]_vars

\* the calls so far are save_semantic calls with a reward, all on one
\* namespace and key of a fresh store, and none of them raised
RewardedSavesOnly ==
    /\ only_saves
    /\ saves # <<>>
    /\ \A i \in 1..Len(saves) :
          /\ saves[i].namespace = saves[1].namespace
          /\ saves[i].key = saves[1].key
    /\ mem_result.outcome = "ok"

\* C18: after n save_semantic calls with a reward on one namespace and key
\* the stored item's metadata holds reward_count = n and avg_reward = the
\* mean of the n rewards
C18_RewardAggregates ==
    RewardedSavesOnly =>
        LET p == <<saves[1].namespace, saves[1].key>>
            total == Sum([i \in 1..Len(saves) |-> saves[i].reward[1]])
        IN  /\ p \in DOMAIN items
            /\ DOMAIN items[p].metadata = {"avg_reward", "reward_count"}
            /\ items[p].metadata["reward_count"] = Len(saves)
            /\ items[p].metadata["avg_reward"].num * Len(saves)
                  = total * items[p].metadata["avg_reward"].den

\* what namespace B holds: its keys and their values
Holds(its, namespace) ==
    [key \in keys_of(its, namespace) |-> its[<<namespace, key>>]]

\* C19: put, delete and clear_namespace on one namespace leave the keys, the
\* values and the count of every other namespace as they were
C19_NamespacesIndependent ==
    [][\A B \in Namespaces :
          (/\ n_ops' = n_ops + 1
           /\ mem_result'.op \in {"put", "delete", "clear_namespace"}
           /\ mem_result'.namespace # B)
          => /\ Holds(items', B) = Holds(items, B)
             /\ Cardinality(keys_of(items', B)) = Cardinality(keys_of(items, B))
      ]_vars

C19_Witness ==
    /\ mem_result.op = "clear_namespace"
    /\ mem_result.outcome = "ok"
    /\ mem_result.deleted # {}
    /\ keys_of(items, mem_result.namespace) = {}
    /\ \E B \in Namespaces :
          /\ B # mem_result.namespace
          /\ \E key \in keys_of(items, B) : <<mem_result.namespace, key>> \in mem_result.deleted

\* C21: retrieve_semantic never returns an item that save_episode wrote
C21_EpisodesNotRetrieved ==
    mem_result.op = "retrieve_semantic" =>
        \A p \in mem_result.found : items[p].kind # "episode"

\* the save_semantic calls with a reward made under a namespace and key
RewardedSaves(namespace, key) ==
    {i \in 1..Len(saves) : /\ saves[i].namespace = namespace
                           /\ saves[i].key = key
                           /\ saves[i].reward # <<>>}

\* C37: reward aggregates are kept per (namespace, key): the reward_count
\* stored under a key in one namespace counts no reward that was saved under
\* the same key in another namespace
C37_AggregatesPerNamespace ==
    \A p \in DOMAIN items :
        "reward_count" \in DOMAIN items[p].metadata =>
            items[p].metadata["reward_count"] <=
                Cardinality(RewardedSaves(p[1], p[2]))

(***************************************************************************)
(* ModelManager.generate, one call at a time.  gen_pc names the await the  *)
(* call is suspended at.                                                   *)
(***************************************************************************)
MaxCalls == 2

GenInit ==
    /\ MemFresh
    /\ awaitable \in BOOLEAN
    /\ GenIdle
    /\ OutsideGenIdle

\* a caller enters generate; with a namespace the first await is the
\* semantic retrieval, without one it is the model call
GenerateCalled(namespace, persist, reward) ==
    /\ gen_pc \in {"idle", "returned", "raised"}
    /\ gen_calls < MaxCalls
    /\ gen_calls' = gen_calls + 1
    /\ gen_args' = [namespace |-> namespace, persist |-> persist,
                    reward |-> reward]
    /\ gen_pc' = IF namespace # None THEN "retrieve_semantic" ELSE "ainvoke"
    /\ UNCHANGED <<mem_vars, outside_gen>>

\* step 1: memory_manager.retrieve_semantic returns or raises
RetrieveSemantic ==
    /\ gen_pc = "retrieve_semantic"
    /\ gen_pc' \in {"ainvoke", "raised"}
    /\ UNCHANGED <<gen_args, gen_calls, mem_vars, outside_gen>>

\* step 3: llm.ainvoke returns the response or raises
Ainvoke ==
    /\ gen_pc = "ainvoke"
    /\ gen_pc' \in {"save_semantic", "raised"}
    /\ UNCHANGED <<gen_args, gen_calls, mem_vars, outside_gen>>

\* step 4: persist the interaction under "last_query", then enter
\* _self_reflect, which awaits the reflection's model call
PersistInteraction ==
    /\ gen_pc = "save_semantic"
    /\ IF gen_args.persist /\ gen_args.namespace # None
       THEN LET r == save_semantic(items, reward_cache, gen_args.namespace,
                                   "last_query", gen_args.reward)
            IN  /\ items' = r.items
                /\ reward_cache' = r.reward_cache
                /\ mem_result' = Ended("save_semantic", gen_args.namespace,
                                       r.outcome, {})
                /\ saves' = Append(saves, [namespace |-> gen_args.namespace,
                                           key |-> "last_query",
                                           reward |-> gen_args.reward])
                /\ only_saves' = (only_saves /\ gen_args.reward # <<>>)
                /\ n_ops' = n_ops + 1
                /\ gen_pc' = IF r.outcome = "ok" THEN "reflect_ainvoke"
                             ELSE "raised"
       ELSE /\ gen_pc' = "reflect_ainvoke"
            /\ UNCHANGED <<items, reward_cache, mem_result, saves,
                           only_saves, n_ops>>
    /\ UNCHANGED <<awaitable, gen_args, gen_calls, outside_gen>>

\* step 5, _self_reflect: the reflection's model call returns, or raises and
\* the except clause logs it
ReflectAinvoke ==
    /\ gen_pc = "reflect_ainvoke"
    /\ gen_pc' \in {"reflect_save_episode", "return"}
    /\ UNCHANGED <<gen_args, gen_calls, mem_vars, outside_gen>>

\* step 5, _self_reflect: the reflection is saved as an episode; an
\* exception of the save is logged
ReflectSaveEpisode ==
    /\ gen_pc = "reflect_save_episode"
    /\ LET r == save_episode(items, gen_args.namespace,
                             "last_query:reflection")
       IN  /\ items' = r.items
           /\ mem_result' = Ended("save_episode", gen_args.namespace,
                                  r.outcome, {})
    /\ n_ops' = n_ops + 1
    /\ only_saves' = FALSE
    /\ gen_pc' = "return"
    /\ UNCHANGED <<reward_cache, awaitable, saves, gen_args, gen_calls,
                   outside_gen>>

\* generate returns the response
GenerateReturns ==
    /\ gen_pc = "return"
    /\ gen_pc' = "returned"
    /\ UNCHANGED <<gen_args, gen_calls, mem_vars, outside_gen>>

GenNext ==
    \/ \E namespace \in Namespaces \cup {None}, persist \in BOOLEAN :
          \E reward \in {<<>>} \cup {<<r>> : r \in Rewards} :
             GenerateCalled(namespace, persist, reward)
    \/ RetrieveSemantic
    \/ Ainvoke
    \/ PersistInteraction
    \/ ReflectAinvoke
    \/ ReflectSaveEpisode
    \/ GenerateReturns

GenSpec == GenInit /\ [][GenNext]_vars

\* generate's own steps are taken when they can be; nothing makes the calls
\* that _self_reflect awaits complete
GenFairSpec ==
    /\ GenSpec
    /\ WF_vars(PersistInteraction)
    /\ WF_vars(GenerateReturns)

\* C20: once generate holds the completion it returns it, whether or not
\* the reflection's model call and episodic save complete
C20_ReturnNotBlocked ==
    (gen_pc = "save_semantic") ~> (gen_pc \in {"returned", "raised"})

\* a call of generate without a namespace is under way
RunningWithoutNamespace ==
    /\ gen_pc \notin {"idle", "returned", "raised"}
    /\ gen_args.namespace = None

\* C38: generate called without a namespace performs no memory operation:
\* no semantic retrieval, no save_semantic and no save_episode
C38_NoNamespaceNoMemory ==
    [][RunningWithoutNamespace =>
          (/\ gen_pc # "retrieve_semantic"
           /\ n_ops' = n_ops
           /\ mem_result' = mem_result
           /\ items' = items)
      ]_vars

(***************************************************************************)
(* BaseSkill.run.                                                          *)
(***************************************************************************)
MaxContext == 2

\* the sources of a context entry, and those whose resolution can raise
Sources == {"state", "memory", "external", "computed", "text", "other"}
Raising == {"memory", "external", "computed", "text"}

\* a declared entry: its source and whether resolving it raises in this run
ContextEntries ==
    {e \in [type : Sources, fails : BOOLEAN] : e.fails => e.type \in Raising}

\* what an entry resolves to when nothing fails
resolved(ctx) == IF ctx.type = "other" THEN None ELSE ctx.type

\* the first entry whose resolution raises, or past the end
first_failure(meta) ==
    IF \E i \in 1..Len(meta) : meta[i].fails
    THEN CHOOSE i \in 1..Len(meta) :
            /\ meta[i].fails
            /\ \A j \in 1..(i - 1) : ~meta[j].fails
    ELSE Len(meta) + 1

\* BaseSkill._resolve_context: one try around the whole loop
_resolve_context(meta) ==
    [i \in 1..(first_failure(meta) - 1) |-> resolved(meta[i])]

ModelOutputs == {"valid_json", "invalid_json", "not_json"}

\* BaseSkill._validate_schema
_validate_schema(out) == out

\* BaseSkill._emit_state_delta: the entry it appends to history_agents
_emit_state_delta(out) == [history_output |-> out]

SkillInit ==
    /\ context_meta \in SeqsUpTo(ContextEntries, MaxContext)
    /\ template_vars \in SUBSET (1..Len(context_meta))
    /\ has_schema \in BOOLEAN
    /\ output_mode \in {"json", "text"}
    /\ SkillFresh
    /\ OutsideSkillIdle

\* run up to the prompt: resolve the context, then render the prompt, which
\* raises ValueError when the template names an entry the context lacks
ResolveAndRender ==
    /\ skill_pc = "start"
    /\ context' = _resolve_context(context_meta)
    /\ skill_pc' = IF template_vars \subseteq DOMAIN context'
                   THEN "call_llm" ELSE "raised"
    /\ UNCHANGED <<context_meta, template_vars, has_schema, output_mode,
                   output, skill_events, skill_delta, outside_skill>>

\* _call_llm: model_manager.generate returns text or raises
CallLLM ==
    /\ skill_pc = "call_llm"
    /\ \/ /\ output' \in ModelOutputs
          /\ skill_pc' = "validate"
       \/ /\ output' = output
          /\ skill_pc' = "raised"
    /\ UNCHANGED <<context_meta, template_vars, has_schema, output_mode,
                   context, skill_events, skill_delta, outside_skill>>

\* the rest of run: schema validation, the tools, the state delta; a tool
\* that raises ends the run
FinishRun ==
    /\ skill_pc = "validate"
    /\ LET validated == IF has_schema THEN _validate_schema(output)
                        ELSE output
       IN  \/ /\ output' = validated
              /\ skill_delta' = _emit_state_delta(validated)
              /\ skill_pc' = "returned"
           \/ /\ output' = validated
              /\ skill_delta' = skill_delta
              /\ skill_pc' = "raised"
    /\ UNCHANGED <<context_meta, template_vars, has_schema, output_mode,
                   context, skill_events, outside_skill>>

SkillNext ==
    \/ ResolveAndRender
    \/ CallLLM
    \/ FinishRun

SkillSpec == SkillInit /\ [][SkillNext]_vars

\* C22: an entry whose resolution fails is null in the resolved context and
\* every other declared entry is resolved
C22_FailedEntryNull ==
    skill_pc # "start" =>
        \A i \in 1..Len(context_meta) :
            /\ i \in DOMAIN context
            /\ context[i] = IF context_meta[i].fails THEN None
                            ELSE resolved(context_meta[i])

\* the model output holds no JSON object valid against the agent's schema
SchemaViolated ==
    /\ has_schema
    /\ output_mode = "json"
    /\ output \in {"invalid_json", "not_json"}

\* C23: after a schema violation the run returns a delta whose history entry
\* carries the empty object, with an agent_error event emitted
C23_SchemaViolationHandled ==
    (SchemaViolated /\ skill_pc = "returned") =>
        /\ skill_delta.history_output = "empty_object"
        /\ \E i \in 1..Len(skill_events) : skill_events[i] = "agent_error"

(***************************************************************************)
(* ReloadManager and the sessions it runs beside.                          *)
(***************************************************************************)
MaxEdits == 2
MaxPolls == 2
MaxSteps == 2

\* reload that swaps the registries' contents in place and drops the graph
_reload_workspace_in_place(gs, reg) ==
    [graphs |-> gs \ {WORKSPACE}, registry_version |-> artifacts]

\* ReloadManager._reload_workspace: loader.load() raises AttributeError
\* (WorkspaceLoader has no load), the except clause logs it, and the
\* invalidation after it is not reached
_reload_workspace(gs, reg) ==
    [graphs |-> gs, registry_version |-> reg]

\* watcher that invalidates the graph at every poll
_watch_workspace_always(gs, reg, vh) ==
    [graphs |-> gs \ {WORKSPACE}, registry_version |-> reg,
     version_hash |-> vh, detected |-> FALSE, outcome |-> "ok"]

\* one iteration of ReloadManager._watch_workspace after the sleep.  A dict
\* in place of the loader has no _compute_version_hash: AttributeError,
\* logged.
_watch_workspace(gs, reg, vh) ==
    IF loader_kind = "dict"
    THEN [graphs |-> gs, registry_version |-> reg, version_hash |-> vh,
          detected |-> FALSE, outcome |-> "AttributeError"]
    ELSE LET new_hash == artifacts
         IN  IF vh # new_hash
             THEN LET r == _reload_workspace(gs, reg)
                  IN  [graphs |-> r.graphs,
                       registry_version |-> r.registry_version,
                       version_hash |-> new_hash,
                       detected |-> TRUE, outcome |-> "ok"]
             ELSE [graphs |-> gs, registry_version |-> reg,
                   version_hash |-> vh, detected |-> FALSE, outcome |-> "ok"]

ReloadInit ==
    /\ ReloadFresh
    /\ loader_kind \in {"dict", "WorkspaceLoader"}
    /\ OutsideReloadIdle

\* what the reload leaves alone: everything outside but GraphManager._graphs
reload_frame == <<graph_vars, tool_vars, orch_vars, mem_vars, gen_vars,
                  skill_vars, bus_vars, registry_vars, reducer_vars, order_vars,
                  decay_vars, session_vars, agents, terminal,
                  build_result>>

\* someone edits a file of the workspace
EditArtifacts ==
    /\ artifacts < MaxEdits
    /\ artifacts' = artifacts + 1
    /\ UNCHANGED <<loader_kind, version_hash, registry_version,
                   graph_built_from, polls, last_poll, session_pc,
                   session_graph, session_registry, session_saw,
                   session_steps, reloaded_in_flight, graphs, reload_frame>>

\* the watcher wakes up
Poll ==
    /\ polls < MaxPolls
    /\ polls' = polls + 1
    /\ LET r == _watch_workspace(graphs, registry_version, version_hash)
       IN  /\ graphs' = r.graphs
           /\ registry_version' = r.registry_version
           /\ version_hash' = r.version_hash
           /\ last_poll' = [detected |-> r.detected, outcome |-> r.outcome]
           /\ reloaded_in_flight' =
                 (reloaded_in_flight \/ (r.detected /\ session_pc = "running"))
    /\ UNCHANGED <<artifacts, loader_kind, graph_built_from, session_pc,
                   session_graph, session_registry, session_saw,
                   session_steps, reload_frame>>

\* RuntimeManager.create_session: Orchestrator.__init__ takes the graph from
\* GraphManager.get, which raises KeyError without a cached graph
CreateSession ==
    /\ session_pc = "none"
    /\ IF WORKSPACE \in graphs
       THEN /\ session_pc' = "running"
            /\ session_graph' = graph_built_from
            /\ session_registry' = registry_version
       ELSE /\ session_pc' = "KeyError"
            /\ UNCHANGED <<session_graph, session_registry>>
    /\ UNCHANGED <<artifacts, loader_kind, version_hash, registry_version,
                   graph_built_from, polls, last_poll, session_saw,
                   session_steps, reloaded_in_flight, graphs, reload_frame>>

\* a node of the session's run executes: it reads the registries
SessionStep ==
    /\ session_pc = "running"
    /\ session_steps < MaxSteps
    /\ session_steps' = session_steps + 1
    /\ session_saw' = session_saw \cup {registry_version}
    /\ UNCHANGED <<artifacts, loader_kind, version_hash, registry_version,
                   graph_built_from, polls, last_poll, session_pc,
                   session_graph, session_registry, reloaded_in_flight,
                   graphs, reload_frame>>

\* the session's run ends
SessionFinishes ==
    /\ session_pc = "running"
    /\ session_steps >= 1
    /\ session_pc' = "finished"
    /\ UNCHANGED <<artifacts, loader_kind, version_hash, registry_version,
                   graph_built_from, polls, last_poll, session_graph,
                   session_registry, session_saw, session_steps,
                   reloaded_in_flight, graphs, reload_frame>>

ReloadNext ==
    \/ EditArtifacts
    \/ Poll
    \/ CreateSession
    \/ SessionStep
    \/ SessionFinishes

ReloadSpec == ReloadInit /\ [][ReloadNext]_vars

\* C25: after the watcher has detected a change, the graph manager holds a
\* graph compiled from the changed artifacts
C25_RebuiltAfterChange ==
    last_poll.detected =>
        /\ WORKSPACE \in graphs
        /\ graph_built_from = version_hash

\* C26: a poll that finds the hash it recorded last leaves the cached graph
\* in place
C26_UnchangedKeepsGraph ==
    [][(/\ polls' = polls + 1
        /\ version_hash = artifacts)
       => (graphs' = graphs /\ graph_built_from' = graph_built_from)]_vars

C26_Witness ==
    /\ loader_kind = "WorkspaceLoader"
    /\ polls = 2
    /\ artifacts = 1
    /\ version_hash = artifacts
    /\ ~last_poll.detected
    /\ last_poll.outcome = "ok"
    /\ WORKSPACE \in graphs

\* C27: a run in flight reads the registry contents it started with and
\* keeps its graph, whatever reload happens meanwhile
C27_InFlightUnaffected ==
    session_pc \in {"running", "finished"} =>
        /\ session_saw \subseteq {session_registry}
        /\ session_graph = graph_built_from

C27_Witness ==
    /\ session_pc = "finished"
    /\ reloaded_in_flight
    /\ session_steps = 2
    /\ session_saw = {session_registry}

(***************************************************************************)
(* EventBus.                                                               *)
(***************************************************************************)
MaxEvents == 2
MaxSubs == 2

BusInit ==
    /\ subscribers \in SeqsUpTo({"sync", "async"}, MaxSubs)
    /\ BusFresh
    /\ OutsideBusIdle

Log(what, event, sub) == [what |-> what, event |-> event, sub |-> sub]

HandlerTask(event, sub, step) ==
    [kind |-> "handler", event |-> event, sub |-> sub, step |-> step]

EmitTask(event) == [kind |-> "emit", event |-> event, sub |-> 0, step |-> 0]

\* the loop of emit over the callbacks from the i-th on: a sync callback
\* runs to its end inside the call, an async one only hands back a coroutine
RECURSIVE called(_, _)
called(event, i) ==
    IF i > Len(subscribers) THEN <<>>
    ELSE (IF subscribers[i] = "sync"
          THEN <<Log("recv", event, i), Log("done", event, i)>>
          ELSE <<Log("recv", event, i)>>) \o called(event, i + 1)

\* the coroutines emit hands to asyncio.gather, which makes them tasks
RECURSIVE coros(_, _)
coros(event, i) ==
    IF i > Len(subscribers) THEN <<>>
    ELSE (IF subscribers[i] = "async"
          THEN <<HandlerTask(event, i, 0)>> ELSE <<>>) \o coros(event, i + 1)

\* the driver awaits EventBus.emit: the callbacks are called inside the
\* driver's own step, then the driver waits for the gathered coroutines
DriverEmits ==
    /\ driver = "running"
    /\ emitted < MaxEvents
    /\ emitted' = emitted + 1
    /\ bus_log' = bus_log \o called(emitted', 1)
    /\ ready' = ready \o coros(emitted', 1)
    /\ waiting_for' = {<<t.event, t.sub>> : t \in Range(coros(emitted', 1))}
    /\ driver' = IF waiting_for' = {} THEN "running" ELSE "waiting"
    /\ UNCHANGED <<subscribers, outside_bus>>

\* the driver calls EventBus.emit_sync on the running loop: create_task
\* queues the emit and the call returns
DriverEmitsSync ==
    /\ driver = "running"
    /\ emitted < MaxEvents
    /\ emitted' = emitted + 1
    /\ ready' = Append(ready, EmitTask(emitted'))
    /\ UNCHANGED <<subscribers, driver, waiting_for, bus_log, outside_bus>>

\* the driver awaits something else or returns: the loop runs other tasks
DriverYields ==
    /\ driver = "running"
    /\ driver' = "ended"
    /\ UNCHANGED <<subscribers, emitted, waiting_for, ready, bus_log,
                   outside_bus>>

\* the loop runs the emit that emit_sync queued
RunEmitTask ==
    /\ driver # "running"
    /\ ready # <<>>
    /\ Head(ready).kind = "emit"
    /\ bus_log' = bus_log \o called(Head(ready).event, 1)
    /\ ready' = Tail(ready) \o coros(Head(ready).event, 1)
    /\ UNCHANGED <<subscribers, emitted, driver, waiting_for, outside_bus>>

\* the loop runs a handler's coroutine up to an await inside it
HandlerSuspends ==
    /\ driver # "running"
    /\ ready # <<>>
    /\ Head(ready).kind = "handler"
    /\ Head(ready).step = 0
    /\ ready' = Append(Tail(ready),
                       HandlerTask(Head(ready).event, Head(ready).sub, 1))
    /\ UNCHANGED <<subscribers, emitted, driver, waiting_for, bus_log,
                   outside_bus>>

\* the loop runs a handler's coroutine to its end; the driver goes on when
\* the last coroutine of its gather has ended
HandlerCompletes ==
    /\ driver # "running"
    /\ ready # <<>>
    /\ Head(ready).kind = "handler"
    /\ bus_log' = Append(bus_log,
                         Log("done", Head(ready).event, Head(ready).sub))
    /\ ready' = Tail(ready)
    /\ waiting_for' = waiting_for \ {<<Head(ready).event, Head(ready).sub>>}
    /\ driver' = IF driver = "waiting" /\ waiting_for' = {}
                 THEN "running" ELSE driver
    /\ UNCHANGED <<subscribers, emitted, outside_bus>>

BusNext ==
    \/ DriverEmits
    \/ DriverEmitsSync
    \/ DriverYields
    \/ RunEmitTask
    \/ HandlerSuspends
    \/ HandlerCompletes

BusSpec == BusInit /\ [][BusNext]_vars

\* C28: events reach the callbacks in emission order, and when a callback is
\* called with an event every callback of every earlier event has completed
C28_OrderedDelivery ==
    \A p \in 1..Len(bus_log) :
        bus_log[p].what = "recv" =>
            \A event \in 1..(bus_log[p].event - 1) :
                \A sub \in 1..Len(subscribers) :
                    \E q \in 1..(p - 1) : bus_log[q] = Log("done", event, sub)

(***************************************************************************)
(* AgentRegistry.load_agents and register.                                 *)
(***************************************************************************)
MaxDirs == 2

\* an agent directory: the role of its skill.json ("" when it has none) and
\* whether SkillAgent can be constructed from it
AgentDirs == [role : Roles \cup {""}, constructs : BOOLEAN]

RegistryInit ==
    /\ agent_dirs \in SeqsUpTo(AgentDirs, MaxDirs)
    /\ RegistryFresh
    /\ OutsideRegistryIdle

\* AgentRegistry.register: an empty role raises ValueError; for a role
\* already registered the warning goes through self.logger, which the
\* registry does not have, and raises AttributeError before the assignment
register(reg, ordered, role, dir) ==
    IF role = ""
    THEN [agent_of |-> reg, roles_ordered |-> ordered, raised |-> "ValueError"]
    ELSE IF role \in DOMAIN reg
    THEN [agent_of |-> reg, roles_ordered |-> ordered,
          raised |-> "AttributeError"]
    ELSE [agent_of |-> Put(reg, role, dir),
          roles_ordered |-> IF role \notin Range(ordered)
                            THEN Append(ordered, role) ELSE ordered,
          raised |-> None]

\* one turn of the loop of load_agents: a failure of the construction or of
\* register is logged and the directory is skipped
LoadAgentDir ==
    /\ next_dir <= Len(agent_dirs)
    /\ next_dir' = next_dir + 1
    /\ IF agent_dirs[next_dir].constructs
       THEN LET r == register(agent_of, roles_ordered,
                              agent_dirs[next_dir].role, next_dir)
            IN  /\ agent_of' = r.agent_of
                /\ roles_ordered' = r.roles_ordered
       ELSE UNCHANGED <<agent_of, roles_ordered>>
    /\ UNCHANGED <<agent_dirs, outside_registry>>

RegistryNext == LoadAgentDir

RegistrySpec == RegistryInit /\ [][RegistryNext]_vars

\* AgentRegistry.get
registry_get(role) == IF role \in DOMAIN agent_of THEN agent_of[role] ELSE 0

\* the last directory that declares the role and constructs
LastDeclaring(role) ==
    CHOOSE i \in 1..Len(agent_dirs) :
        /\ agent_dirs[i].role = role /\ agent_dirs[i].constructs
        /\ \A j \in (i + 1)..Len(agent_dirs) :
              ~(agent_dirs[j].role = role /\ agent_dirs[j].constructs)

\* C29: once load_agents is through, get(role) is the agent of the last
\* directory that declares the role, and roles() lists the role once
C29_LaterAgentWins ==
    next_dir > Len(agent_dirs) =>
        \A i \in 1..Len(agent_dirs) :
            (agent_dirs[i].constructs /\ agent_dirs[i].role # "") =>
                /\ registry_get(agent_dirs[i].role)
                      = LastDeclaring(agent_dirs[i].role)
                /\ Cardinality({k \in 1..Len(roles_ordered) :
                                  roles_ordered[k] = agent_dirs[i].role}) = 1

(***************************************************************************)
(* Two deltas of one stage through the reducer.                            *)
(***************************************************************************)
MaxExecuted == 2

\* the delta of agent_node for the channel, from the state the node was
\* handed: the stage's list after the guarded append
node_delta(acc, stage_name, role) ==
    [s \in {stage_name} |->
        IF role \notin Range(Get(acc, stage_name))
        THEN Append(Get(acc, stage_name), role)
        ELSE Get(acc, stage_name)]

ReducerInit ==
    /\ \E names \in SUBSET StageNames :
          red_acc \in [names -> SeqsUpTo(Roles, MaxExecuted)]
    /\ red_stage \in StageNames
    /\ red_roles \in {r \in [1..2 -> Roles] : r[1] # r[2]}
    /\ red_out = red_acc
    /\ red_merged = 0
    /\ OutsideReducerIdle

\* the channel takes the next delta
MergeDelta ==
    /\ red_merged < 2
    /\ red_merged' = red_merged + 1
    /\ red_out' = merge_executed(red_out,
                     node_delta(red_acc, red_stage, red_roles[red_merged']))
    /\ UNCHANGED <<red_acc, red_stage, red_roles, outside_reducer>>

ReducerNext == MergeDelta

ReducerSpec == ReducerInit /\ [][ReducerNext]_vars

\* C30: with the deltas of both agents merged, in whichever order, the
\* stage's list holds both roles and every other stage's list is as before
C30_MergeKeepsBoth ==
    red_merged = 2 =>
        /\ red_stage \in DOMAIN red_out
        /\ {red_roles[1], red_roles[2]} \subseteq Range(red_out[red_stage])
        /\ \A s \in DOMAIN red_acc \ {red_stage} :
              s \in DOMAIN red_out /\ red_out[s] = red_acc[s]
        /\ DOMAIN red_out = DOMAIN red_acc \cup {red_stage}

C30_Witness ==
    /\ red_merged = 2
    /\ DOMAIN red_acc = StageNames
    /\ \A s \in StageNames : red_acc[s] # <<>>
    /\ red_roles[1] \notin Range(red_acc[red_stage])
    /\ red_roles[2] \notin Range(red_acc[red_stage])

(***************************************************************************)
(* StageRegistry.load_stages, first_stage and next_stage over stage.json   *)
(* entries with priorities.                                                *)
(***************************************************************************)
MaxEntries == 3     \* entries of "stages" in stage.json
MaxPriority == 2
MaxWalk == 4        \* stages visited by following next_stage

PriorityMeta == [name : StageNames, priority : 1..MaxPriority]

\* sorted(stages_meta, key=lambda s: s.get("priority", 1)): stable, ascending
RECURSIVE sorted_by_priority(_)
sorted_by_priority(metas) ==
    IF metas = <<>>
    THEN <<>>
    ELSE LET rest == sorted_by_priority(SubSeq(metas, 1, Len(metas) - 1))
             x == metas[Len(metas)]
             k == Cardinality({i \in 1..Len(rest) :
                                  rest[i].priority <= x.priority})
         IN  SubSeq(rest, 1, k) \o <<x>> \o SubSeq(rest, k + 1, Len(rest))

OrderInit ==
    /\ stages_meta \in UNION {[1..k -> PriorityMeta] : k \in 0..MaxEntries}
    /\ reg_order = <<>>
    /\ walk = <<>>
    /\ walk_pc = "new"
    /\ OutsideOrderIdle

\* StageRegistry.load_stages: one name appended to _order per sorted entry
LoadStages ==
    /\ walk_pc = "new"
    /\ reg_order' = LET sorted_stages == sorted_by_priority(stages_meta)
                    IN  [i \in 1..Len(sorted_stages) |-> sorted_stages[i].name]
    /\ walk_pc' = "loaded"
    /\ UNCHANGED <<stages_meta, walk, outside_order>>

\* StageRegistry.first_stage
FirstStageCalled ==
    /\ walk_pc = "loaded"
    /\ IF reg_order = <<>>
       THEN walk_pc' = "ValueError" /\ walk' = walk
       ELSE walk_pc' = "walking" /\ walk' = <<reg_order[1]>>
    /\ UNCHANGED <<stages_meta, reg_order, outside_order>>

\* StageRegistry.next_stage of the stage reached last
NextStageCalled ==
    /\ walk_pc = "walking"
    /\ Len(walk) < MaxWalk
    /\ LET n == next_stage_in(reg_order, walk[Len(walk)])
       IN  IF n = None
           THEN walk_pc' = "ended" /\ walk' = walk
           ELSE walk_pc' = "walking" /\ walk' = Append(walk, n)
    /\ UNCHANGED <<stages_meta, reg_order, outside_order>>

OrderNext ==
    \/ LoadStages
    \/ FirstStageCalled
    \/ NextStageCalled

OrderSpec == OrderInit /\ [][OrderNext]_vars

\* some entry named a and some entry named b, b's priority not below a's and
\* no entry's priority strictly between the two
ImmediatelyAfter(a, b) ==
    \E i, j \in 1..Len(stages_meta) :
        /\ stages_meta[i].name = a
        /\ stages_meta[j].name = b
        /\ stages_meta[i].priority <= stages_meta[j].priority
        /\ \A m \in 1..Len(stages_meta) :
              ~(/\ stages_meta[i].priority < stages_meta[m].priority
                /\ stages_meta[m].priority < stages_meta[j].priority)

\* C34: first_stage() is a stage of minimum priority, each next_stage is the
\* stage immediately after in ascending priority, and following next_stage
\* from first_stage visits every stage exactly once and then ends
C34_PriorityWalk ==
    walk_pc \in {"walking", "ended"} =>
        /\ \E i \in 1..Len(stages_meta) :
              /\ stages_meta[i].name = walk[1]
              /\ \A j \in 1..Len(stages_meta) :
                    stages_meta[i].priority <= stages_meta[j].priority
        /\ \A k \in 1..(Len(walk) - 1) : ImmediatelyAfter(walk[k], walk[k + 1])
        /\ \A k, l \in 1..Len(walk) : walk[k] = walk[l] => k = l
        /\ walk_pc = "ended" =>
              Range(walk) = {stages_meta[i].name : i \in 1..Len(stages_meta)}

(***************************************************************************)
(* MemoryManager._maybe_decay, the last step of save_semantic.             *)
(***************************************************************************)
MaxCount == 3           \* counts a store reports
MaxDecayAfter == 2      \* configured thresholds
MaxDecayCalls == 3

\* whether _maybe_decay invokes store.summarize, given the count of
\* store.stats(namespace, key)
_maybe_decay(count) ==
    IF has_stats
    THEN count >= decay_after /\ has_summarize
    ELSE FALSE

DecayInit ==
    /\ has_stats \in BOOLEAN
    /\ has_summarize \in BOOLEAN
    /\ decay_after \in 1..MaxDecayAfter
    /\ decay_calls = 0
    /\ last_decay = NoDecay
    /\ OutsideDecayIdle

\* save_semantic reaches _maybe_decay with the store reporting count
MaybeDecay(count) ==
    /\ decay_calls < MaxDecayCalls
    /\ decay_calls' = decay_calls + 1
    /\ last_decay' = [count |-> count, summarized |-> _maybe_decay(count)]
    /\ UNCHANGED <<has_stats, has_summarize, decay_after, outside_decay>>

DecayNext == \E count \in 0..MaxCount : MaybeDecay(count)

DecaySpec == DecayInit /\ [][DecayNext]_vars

\* C35: save_semantic invokes store.summarize (of a store that has it)
\* exactly when the store exposes stats and the reported count is strictly
\* greater than decay_after; at a count equal to decay_after it does not
C35_SummarizeAboveThreshold ==
    (decay_calls > 0 /\ has_summarize) =>
        (last_decay.summarized <=>
            (has_stats /\ last_decay.count > decay_after))

(***************************************************************************)
(* RuntimeManager.create_session, run_user_message, close_session and      *)
(* close_all_sessions; lifecycle events on the shared bus.                 *)
(***************************************************************************)
MaxSessionCalls == 3

SessionIds == {"s1", "s2"}      \* ids a caller passes
UUIDs == {"u1", "u2"}           \* ids uuid4 generates

\* register_lifecycle_handlers: EventBus.on appends one callback per event
register_lifecycle_handlers(subs) ==
    [subs EXCEPT !["agent_start"] = Append(@, "on_agent_start"),
                 !["agent_done"] = Append(@, "on_agent_done")]

\* create_session with session_id already resolved (the argument, or a
\* uuid4 when it is missing)
create_session(orchs, n, subs, session_id) ==
    [orchestrators |-> Put(orchs, session_id, n + 1),
     n_created |-> n + 1,
     subscribers |-> register_lifecycle_handlers(subs),
     session_id |-> session_id]

\* run_user_message that makes a session for every message
run_user_message_always_creates(orchs, n, subs, arg, uuid) ==
    LET c == create_session(orchs, n, subs, IF arg # None THEN arg ELSE uuid)
    IN  [orchestrators |-> c.orchestrators, n_created |-> c.n_created,
         subscribers |-> c.subscribers, session_id |-> c.session_id,
         orchestrator |-> c.orchestrators[c.session_id]]

\* run_user_message up to the orchestrator it runs the message with
run_user_message(orchs, n, subs, arg, uuid) ==
    IF arg # None /\ arg \in DOMAIN orchs
    THEN [orchestrators |-> orchs, n_created |-> n, subscribers |-> subs,
          session_id |-> arg, orchestrator |-> orchs[arg]]
    ELSE LET c == create_session(orchs, n, subs,
                                 IF arg # None THEN arg ELSE uuid)
         IN  [orchestrators |-> c.orchestrators, n_created |-> c.n_created,
              subscribers |-> c.subscribers, session_id |-> c.session_id,
              orchestrator |-> c.orchestrators[c.session_id]]

\* close_session
close_session(orchs, session_id) ==
    [x \in DOMAIN orchs \ {session_id} |-> orchs[x]]

\* EventBus.emit of one event: every subscribed callback is called once
emit_runs(subs, event_name) ==
    IF event_name \notin DOMAIN subs THEN 0 ELSE Len(subs[event_name])

SessionsInit ==
    /\ orchestrators = NoOrchestrators
    /\ n_created = 0
    /\ subscribers_of = [e \in {"agent_start", "agent_done"} |-> <<>>]
    /\ issued = {}
    /\ session_calls = 0
    /\ last_call = NoCall
    /\ handled = NoEvent
    /\ OutsideSessionsIdle

\* the id uuid4 gives when the call needs one: one never given before
NewIds(arg) == IF arg = None THEN UUIDs \ issued ELSE {arg}

CreateSessionCalled(arg) ==
    /\ session_calls < MaxSessionCalls
    /\ \E id \in NewIds(arg) :
          LET r == create_session(orchestrators, n_created, subscribers_of, id)
          IN  /\ orchestrators' = r.orchestrators
              /\ n_created' = r.n_created
              /\ subscribers_of' = r.subscribers
              /\ issued' = IF arg = None THEN issued \cup {id} ELSE issued
              /\ last_call' = [op |-> "create_session", arg |-> arg,
                               session_id |-> r.session_id,
                               before |-> orchestrators,
                               created |-> r.n_created - n_created,
                               orchestrator |-> 0]
    /\ session_calls' = session_calls + 1
    /\ UNCHANGED <<handled, outside_sessions>>

RunUserMessageCalled(arg) ==
    /\ session_calls < MaxSessionCalls
    /\ \E id \in NewIds(arg) :
          LET r == run_user_message(orchestrators, n_created, subscribers_of,
                                    arg, id)
          IN  /\ orchestrators' = r.orchestrators
              /\ n_created' = r.n_created
              /\ subscribers_of' = r.subscribers
              /\ issued' = IF arg = None THEN issued \cup {id} ELSE issued
              /\ last_call' = [op |-> "run_user_message", arg |-> arg,
                               session_id |-> r.session_id,
                               before |-> orchestrators,
                               created |-> r.n_created - n_created,
                               orchestrator |-> r.orchestrator]
    /\ session_calls' = session_calls + 1
    /\ UNCHANGED <<handled, outside_sessions>>

CloseSessionCalled(session_id) ==
    /\ session_calls < MaxSessionCalls
    /\ orchestrators' = close_session(orchestrators, session_id)
    /\ last_call' = [op |-> "close_session", arg |-> session_id,
                     session_id |-> session_id, before |-> orchestrators,
                     created |-> 0, orchestrator |-> 0]
    /\ session_calls' = session_calls + 1
    /\ UNCHANGED <<n_created, subscribers_of, issued, handled,
                   outside_sessions>>

CloseAllSessionsCalled ==
    /\ session_calls < MaxSessionCalls
    /\ orchestrators' = NoOrchestrators
    /\ last_call' = [op |-> "close_all_sessions", arg |-> None,
                     session_id |-> None, before |-> orchestrators,
                     created |-> 0, orchestrator |-> 0]
    /\ session_calls' = session_calls + 1
    /\ UNCHANGED <<n_created, subscribers_of, issued, handled,
                   outside_sessions>>

\* an agent of a session's run emits agent_start or agent_done once
EmitLifecycle(event_name) ==
    /\ n_created > 0
    /\ handled = NoEvent
    /\ handled' = [event |-> event_name,
                   runs |-> emit_runs(subscribers_of, event_name)]
    /\ UNCHANGED <<orchestrators, n_created, subscribers_of, issued,
                   session_calls, last_call, outside_sessions>>

SessionsNext ==
    \/ \E arg \in SessionIds \cup {None} : CreateSessionCalled(arg)
    \/ \E arg \in SessionIds \cup {None} : RunUserMessageCalled(arg)
    \/ \E session_id \in SessionIds \cup UUIDs : CloseSessionCalled(session_id)
    \/ CloseAllSessionsCalled
    \/ \E event_name \in {"agent_start", "agent_done"} :
          EmitLifecycle(event_name)

SessionsSpec == SessionsInit /\ [][SessionsNext]_vars

\* the last call named a session that had an orchestrator
KnownSession ==
    last_call.arg # None /\ last_call.arg \in DOMAIN last_call.before

\* C36: run_user_message with a session_id that has an orchestrator reuses
\* it and creates none; with no or an unknown session_id it creates exactly
\* one; no two session ids share an orchestrator, and a closed id maps to none
C36_OneOrchestratorPerSession ==
    /\ last_call.op = "run_user_message" =>
          IF KnownSession
          THEN /\ last_call.created = 0
               /\ last_call.orchestrator = last_call.before[last_call.arg]
          ELSE /\ last_call.created = 1
               /\ \A x \in DOMAIN last_call.before :
                     last_call.before[x] # last_call.orchestrator
    /\ last_call.op = "close_session" =>
          last_call.arg \notin DOMAIN orchestrators
    /\ \A a, b \in DOMAIN orchestrators :
          orchestrators[a] = orchestrators[b] => a = b

C36_Witness ==
    /\ last_call.op = "run_user_message"
    /\ KnownSession
    /\ Cardinality(DOMAIN orchestrators) = 2
    /\ n_created = 2

\* C39: a single agent_start or agent_done emission runs the lifecycle
\* handler of that event exactly once, however many sessions were created
C39_HandledOnce ==
    handled # NoEvent => handled.runs = 1

====
